---- MODULE Spec2Model ----
(***************************************************************************)
(* UltraBox frame pipeline: boot sequence, bring-up (idle) thread, the     *)
(* template game's frame loop, the libultra message queues the engine      *)
(* creates, and the three hardware units (RSP, RDP, VI) that signal them.  *)
(***************************************************************************)
EXTENDS Integers, Sequences, FiniteSets, TLC

(* ------------------------------------------------------------------ *)
(* Program constants                                                   *)
(* ------------------------------------------------------------------ *)
DISPLAY_BUFFER_COUNT == 2
GFX_CLEAR_CMD_LENGTH == 16
GFX_DRAW_CMD_LENGTH == 2048
IDLE_THREAD_PRI == 10

(* Variant: the main thread is created one priority level above idle(). *)
MainPriAboveIdle == IDLE_THREAD_PRI + 1

MAIN_THREAD_PRI == 10

(* Variant: osSetThreadPri(NULL, 20), above the main thread. *)
IdleRaisedPri == MAIN_THREAD_PRI + MAIN_THREAD_PRI

IDLE_LOWERED_PRI == 0
DEFAULT_QUEUE_LENGTH == 1
DISPLAY_VI_MODE_INDEX == "DISPLAY_VI_MODE_INDEX"
ZeroModeIndex == "0"

(* sizeof(Gfx) and sizeof(OSTask) in bytes; addresses below are counted   *)
(* in Gfx units, byte values are obtained by multiplying by SizeofGfx.    *)
SizeofGfx == 8
SizeofOSTask == 64

(* ------------------------------------------------------------------ *)
(* Bounds of the model                                                 *)
(* ------------------------------------------------------------------ *)
MaxFrames == 3
MaxOverflow == 2

(* ------------------------------------------------------------------ *)
Slots == 0 .. (DISPLAY_BUFFER_COUNT - 1)
Kinds == {"clear", "draw"}
Jobs == Slots \X Kinds
Threads == {"idle", "main"}
Contexts == {"boot", "idle", "main"}
QueueNames == {"dma", "rcp", "rdp", "retrace", "pi"}
Events == {"OS_EVENT_SP", "OS_EVENT_DP", "VI_RETRACE"}
NoBuffer == 0 - 1
NoQueue == "none"
NULL == 0

Min(a, b) == IF a < b THEN a ELSE b

(* ------------------------------------------------------------------ *)
(* Layout of gGfxState[DISPLAY_BUFFER_COUNT] in Gfx units              *)
(* ------------------------------------------------------------------ *)
gGfxStateAddr == 4096
ClearCmdOff == 0
DrawCmdOff == ClearCmdOff + GFX_CLEAR_CMD_LENGTH
ClearTaskOff == DrawCmdOff + GFX_DRAW_CMD_LENGTH
DrawTaskOff == ClearTaskOff + (SizeofOSTask \div SizeofGfx)
GfxStateSize == DrawTaskOff + (SizeofOSTask \div SizeofGfx)

CmdName(k) == IF k = "clear" THEN "clearCmd" ELSE "drawCmd"
TaskName(k) == IF k = "clear" THEN "clearTask" ELSE "drawTask"
CmdCapacity(k) == IF k = "clear" THEN GFX_CLEAR_CMD_LENGTH ELSE GFX_DRAW_CMD_LENGTH
CmdAddr(s, k) ==
    gGfxStateAddr + s * GfxStateSize + (IF k = "clear" THEN ClearCmdOff ELSE DrawCmdOff)

(* The member of gGfxState that contains Gfx-unit address a. *)
RegionOf(a) ==
    LET rel == a - gGfxStateAddr
        s == rel \div GfxStateSize
        off == rel % GfxStateSize
    IN  IF off < DrawCmdOff THEN <<"clearCmd", s>>
        ELSE IF off < ClearTaskOff THEN <<"drawCmd", s>>
        ELSE IF off < DrawTaskOff THEN <<"clearTask", s>>
        ELSE <<"drawTask", s>>

(* ------------------------------------------------------------------ *)
(* The display lists the template game builds, one opcode per          *)
(* UBX_GFX_CMD_NEXT in source order.                                   *)
(* ------------------------------------------------------------------ *)
ClearOps ==
    << "gSPDisplayList", "gDPSetCycleType",
       "gDPSetColorImage", "gDPSetFillColor", "gDPFillRectangle",
       "gDPSetColorImage", "gDPSetFillColor", "gDPFillRectangle",
       "gDPSetDepthImage", "gDPFullSync", "gSPEndDisplayList" >>

DrawOps ==
    << "gSPDisplayList", "gSPPerspNormalize", "gSPMatrix", "gSPMatrix",
       "gDPSetTextureFilter", "gDPSetTexturePersp", "gDPSetTextureDetail",
       "gDPSetTextureLOD", "gDPSetTextureLUT",
       "gSPSetGeometryMode", "gDPSetCycleType", "gDPSetRenderMode",
       "gDPSetCombineMode", "gDPPipeSync",
       "gSPVertex", "gSP1Triangle", "gSP1Triangle",
       "gDPFullSync", "gSPEndDisplayList" >>

OpsOf(k) == IF k = "clear" THEN ClearOps ELSE DrawOps

(* The per-slot memory the n-th word of a list names: the clear list sets  *)
(* gFrameBuffer[gDrawBufferIndex] as color image, the draw list loads the  *)
(* two matrices of the slot's transform and the slot's quad vertices; all  *)
(* other words name memory shared by both slots, or none.                  *)
PerSlotOperand(k, n) ==
    IF k = "clear"
    THEN (IF n = 6 THEN "frameBuffer" ELSE "none")
    ELSE (IF n \in {3, 4} THEN "transform"
          ELSE IF n = 15 THEN "quadVtx"
          ELSE "none")

(* ------------------------------------------------------------------ *)
(* State                                                               *)
(* ------------------------------------------------------------------ *)
VARIABLES
    pc,               \* control location of boot(), idle() and OnGameMainLoop()
    osThread,         \* idleThread / mainThread: scheduling state and priority
    running,          \* the context that holds the CPU
    gUbxSystem,       \* default queue lengths of the system subsystem
    gUbxVideo,        \* default queue length and VI mode of the video subsystem
    gUbxDevice,       \* storage handles and PI queue configuration
    mq,               \* the OSMesgQueue objects: created, capacity, pending messages
    eventMesg,        \* hardware event -> bound message queue
    gDrawBufferIndex, \* the frame index
    gUbxGfxCmd,       \* command list cursor: pListHead / pListTail
    gfxMem,           \* Gfx words written into gGfxState, by address
    task,             \* clearTask / drawTask of every slot
    dirty,            \* regions written by the CPU and not yet written back
    writes,           \* regions written by the step that led to this state
    rcp,              \* coprocessor: phase of every job in flight
    viNext,           \* framebuffer requested by the last osViSwapBuffer
    viCurrent,        \* framebuffer the VI scans out
    viMode,           \* display mode applied by osViSetMode
    closed,           \* jobs whose command list is bound and not yet completed
    frameEvents,      \* pipeline events of the current loop iteration
    lastRecv,         \* message returned by the last osRecvMesg
    unwaited,         \* task starts minus returned rdpMsgQueue receives
    frameNo,          \* completed frames (saturates at MaxFrames)
    dropped,          \* queues that discarded a message since their last receive
    ran,              \* the context (or the hardware) that took the last step
    bootLog,          \* bring-up steps executed so far, in execution order
    lastSwap,         \* caller and argument of the last osViSwapBuffer
    jobsSubmitted,    \* osSpTaskStart calls so far (saturates at 2 * MaxFrames)
    frameJobs,        \* jobs submitted in the current loop iteration
    frameUses,        \* per-slot memory named or written in the current iteration
    args,             \* maskrom64: the parsed command line
    disk,             \* maskrom64: the files the command line names
    maskrom,          \* maskrom64: position and locals of main() and ProcessRom()
    readCall,         \* FileBuffer::Read: the file and the arguments of a call
    output,           \* FileBuffer::Read: the returned flag and the output buffer
    call,             \* ubxpipeline: the function called and its arguments
    result            \* ubxpipeline: what the call returned

cfgVars == <<gUbxSystem, gUbxVideo, gUbxDevice>>
osVars == <<osThread, running, mq, eventMesg>>
gfxVars == <<gUbxGfxCmd, gfxMem, task>>
hwVars == <<rcp, viNext, viCurrent, viMode>>
histVars == <<closed, frameEvents, lastRecv, unwaited, frameNo, dropped>>
logVars == <<ran, bootLog, lastSwap, jobsSubmitted, frameJobs, frameUses>>
toolVars == <<args, disk, maskrom, readCall, output, call, result>>
gameVars == <<pc, cfgVars, osVars, gDrawBufferIndex, gfxVars, dirty, writes, hwVars, histVars,
              logVars>>
vars == <<gameVars, toolVars>>

(* ------------------------------------------------------------------ *)
(* Thread scheduling (strict priority, no preemption among equals)     *)
(* ------------------------------------------------------------------ *)
Runnable(th) == {t \in Threads : th[t].state = "runnable"}

(* Variant: no preemption; the running thread keeps the CPU for as long   *)
(* as it is runnable, whatever the priorities.                            *)
ScheduleNoPriority(th, cur) ==
    LET R == Runnable(th) IN
    IF R = {} \/ cur \in R THEN cur
    ELSE CHOOSE x \in R : \A y \in R : th[y].pri <= th[x].pri

Schedule(th, cur) ==
    LET R == Runnable(th) IN
    IF R = {} THEN cur
    ELSE IF cur \in R /\ \A y \in R : th[y].pri <= th[cur].pri THEN cur
    ELSE CHOOSE x \in R : \A y \in R : th[y].pri <= th[x].pri

(* ------------------------------------------------------------------ *)
(* Message queues                                                      *)
(* ------------------------------------------------------------------ *)
EmptyQueue == [created |-> FALSE, msgCount |-> 0, msgs |-> <<>>]

CreateMesgQueue(len) == [created |-> TRUE, msgCount |-> len, msgs |-> <<>>]

(* Event messages are sent without blocking: a full queue discards them. *)
MqFull(q) == Len(q.msgs) >= q.msgCount

MqSend(q, m) == IF MqFull(q) THEN q ELSE [q EXCEPT !.msgs = Append(@, m)]

(* A hardware event ev carrying tag m: post to the bound queue and make a *)
(* thread blocked on that queue runnable again.                           *)
RaiseEvent(ev, m) ==
    LET qn == eventMesg[ev] IN
    IF qn = NoQueue
    THEN UNCHANGED <<mq, osThread, running, dropped>>
    ELSE LET th == [t \in Threads |->
                       IF osThread[t].state = "waiting" /\ osThread[t].queue = qn
                       THEN [osThread[t] EXCEPT !.state = "runnable", !.queue = NoQueue]
                       ELSE osThread[t]]
         IN  /\ mq' = [mq EXCEPT ![qn] = MqSend(@, m)]
             /\ dropped' = IF MqFull(mq[qn]) THEN dropped \cup {qn} ELSE dropped
             /\ osThread' = th
             /\ running' = Schedule(th, running)

(* ------------------------------------------------------------------ *)
(* Initial state: cold start, all globals zero                         *)
(* ------------------------------------------------------------------ *)
ZeroTask ==
    [ucode_boot |-> FALSE, ucode |-> FALSE, ucode_data |-> FALSE,
     dram_stack |-> FALSE, data_ptr |-> NULL, data_size |-> 0]

ColdStart ==
    /\ pc = [boot |-> "osInitialize", idle |-> "SystemInitialize", main |-> "NewFrameUse"]
    /\ osThread = [t \in Threads |-> [state |-> "none", pri |-> 0, queue |-> NoQueue]]
    /\ running = "boot"
    /\ gUbxSystem = [dmaMsgQueueLength |-> 0, rcpMsgQueueLength |-> 0, rdpMsgQueueLength |-> 0]
    /\ gUbxVideo = [retraceMsgQueueLength |-> 0, viModeIndex |-> ZeroModeIndex]
    /\ gUbxDevice = [handles |-> FALSE, pMsgBuffer |-> NULL, msgLength |-> 0]
    /\ mq = [q \in QueueNames |-> EmptyQueue]
    /\ eventMesg = [e \in Events |-> NoQueue]
    /\ gDrawBufferIndex = 0
    /\ gUbxGfxCmd = [pListHead |-> NULL, pListTail |-> NULL]
    /\ gfxMem = <<>>
    /\ task = [j \in Jobs |-> ZeroTask]
    /\ dirty = {}
    /\ writes = {}
    /\ rcp = [j \in Jobs |-> "none"]
    /\ viNext = NoBuffer
    /\ viCurrent = NoBuffer
    /\ viMode = "none"
    /\ closed = {}
    /\ frameEvents = <<>>
    /\ lastRecv = <<>>
    /\ unwaited = 0
    /\ frameNo = 0
    /\ dropped = {}
    /\ ran = "boot"
    /\ bootLog = <<>>
    /\ lastSwap = <<>>
    /\ jobsSubmitted = 0
    /\ frameJobs = <<>>
    /\ frameUses = {}

(* The host tools are separate programs: none of them runs on the console. *)
NotRun == [fn |-> "none"]

Init ==
    /\ ColdStart
    /\ args = NotRun
    /\ disk = NotRun
    /\ maskrom = NotRun
    /\ readCall = NotRun
    /\ output = NotRun
    /\ call = NotRun
    /\ result = NotRun

(* ------------------------------------------------------------------ *)
(* boot()                                                              *)
(* ------------------------------------------------------------------ *)
At(ctx, loc) == running = ctx /\ pc[ctx] = loc

Goto(ctx, loc) == pc' = [pc EXCEPT ![ctx] = loc]

(* Statement order of boot() and of idle(); the last location of each is *)
(* never left.                                                           *)
BootOrder ==
    << "osInitialize", "SystemSetDefaults", "VideoSetDefaults", "DeviceSetDefaults",
       "OnGameBoot", "CreateIdle", "StartIdle", "unreachable" >>

IdleOrder ==
    << "SystemInitialize", "VideoInitialize", "DeviceInitialize", "OnGameInitialize",
       "CreateMain", "StartMain", "SetThreadPri", "spin" >>

After(order, p) ==
    LET i == CHOOSE n \in 1 .. Len(order) : order[n] = p
    IN  order[Min(i + 1, Len(order))]

(* Variant: OnGameBoot is called before the video and device defaults. *)
BootNextGameBootEarly(p) ==
    After(<< "osInitialize", "SystemSetDefaults", "OnGameBoot", "VideoSetDefaults",
             "DeviceSetDefaults", "CreateIdle", "StartIdle", "unreachable" >>, p)

BootNext(p) == After(BootOrder, p)

(* Variant: OnGameInitialize is called after the priority hand-off. *)
IdleNextInitializeLate(p) ==
    After(<< "SystemInitialize", "VideoInitialize", "DeviceInitialize",
             "CreateMain", "StartMain", "SetThreadPri", "OnGameInitialize", "spin" >>, p)

(* Variant: OnGameInitialize is called before _UbxDeviceInitialize. *)
IdleNextDeviceLate(p) ==
    After(<< "SystemInitialize", "VideoInitialize", "OnGameInitialize", "DeviceInitialize",
             "CreateMain", "StartMain", "SetThreadPri", "spin" >>, p)

(* Variant: the main thread is created and started before OnGameInitialize. *)
IdleNextSpawnFirst(p) ==
    After(<< "SystemInitialize", "VideoInitialize", "DeviceInitialize",
             "CreateMain", "StartMain", "OnGameInitialize", "SetThreadPri", "spin" >>, p)

IdleNext(p) == After(IdleOrder, p)

(* Bookkeeping of a step of boot() or idle(): who ran, and which step. *)
BringUpStep(ctx, step) ==
    /\ ran' = ctx
    /\ UNCHANGED toolVars
    /\ bootLog' = Append(bootLog, step)
    /\ UNCHANGED <<lastSwap, jobsSubmitted, frameJobs, frameUses>>

(* Bookkeeping of a step of the main thread and of the hardware. *)
MainStep ==
    /\ ran' = "main"
    /\ UNCHANGED toolVars
    /\ UNCHANGED <<bootLog, lastSwap, jobsSubmitted, frameJobs, frameUses>>

(* A step of the main thread that names or writes per-slot memory of slot s. *)
MainStepUsing(what, s) ==
    /\ ran' = "main"
    /\ UNCHANGED toolVars
    /\ frameUses' = IF what = "none" THEN frameUses ELSE frameUses \cup {<<what, s>>}
    /\ UNCHANGED <<bootLog, lastSwap, jobsSubmitted, frameJobs>>

HwStep ==
    /\ ran' = "hw"
    /\ UNCHANGED toolVars
    /\ UNCHANGED <<bootLog, lastSwap, jobsSubmitted, frameJobs, frameUses>>

osInitialize ==
    /\ At("boot", "osInitialize")
    /\ BringUpStep("boot", "osInitialize")
    /\ Goto("boot", BootNext("osInitialize"))
    /\ writes' = {}
    /\ UNCHANGED <<cfgVars, osVars, gDrawBufferIndex, gfxVars, dirty, hwVars, histVars>>

SystemDefaults ==
    [dmaMsgQueueLength |-> DEFAULT_QUEUE_LENGTH,
     rcpMsgQueueLength |-> DEFAULT_QUEUE_LENGTH,
     rdpMsgQueueLength |-> DEFAULT_QUEUE_LENGTH]

UbxSystemSetDefaults ==
    /\ At("boot", "SystemSetDefaults")
    /\ BringUpStep("boot", "SystemSetDefaults")
    /\ gUbxSystem' = SystemDefaults
    /\ Goto("boot", BootNext("SystemSetDefaults"))
    /\ writes' = {}
    /\ UNCHANGED <<gUbxVideo, gUbxDevice, osVars, gDrawBufferIndex, gfxVars, dirty, hwVars, histVars>>

(* Variant: the retrace queue is given room for two messages. *)
VideoDefaultsDepthTwo ==
    [retraceMsgQueueLength |-> DEFAULT_QUEUE_LENGTH + 1, viModeIndex |-> ZeroModeIndex]

VideoDefaults ==
    [retraceMsgQueueLength |-> DEFAULT_QUEUE_LENGTH, viModeIndex |-> ZeroModeIndex]

UbxVideoSetDefaults ==
    /\ At("boot", "VideoSetDefaults")
    /\ BringUpStep("boot", "VideoSetDefaults")
    /\ gUbxVideo' = VideoDefaults
    /\ Goto("boot", BootNext("VideoSetDefaults"))
    /\ writes' = {}
    /\ UNCHANGED <<gUbxSystem, gUbxDevice, osVars, gDrawBufferIndex, gfxVars, dirty, hwVars, histVars>>

(* memset, then the three storage handles; the PI message buffer and its *)
(* length are left zero.                                                 *)
DeviceDefaults == [handles |-> TRUE, pMsgBuffer |-> NULL, msgLength |-> 0]

UbxDeviceSetDefaults ==
    /\ At("boot", "DeviceSetDefaults")
    /\ BringUpStep("boot", "DeviceSetDefaults")
    /\ gUbxDevice' = DeviceDefaults
    /\ Goto("boot", BootNext("DeviceSetDefaults"))
    /\ writes' = {}
    /\ UNCHANGED <<gUbxSystem, gUbxVideo, osVars, gDrawBufferIndex, gfxVars, dirty, hwVars, histVars>>

(* defaultGfxTask with the boot, RSP and RSP-data microcode filled in. *)
DefaultGfxTask ==
    [ucode_boot |-> TRUE, ucode |-> TRUE, ucode_data |-> TRUE,
     dram_stack |-> TRUE, data_ptr |-> NULL, data_size |-> 0]

OnGameBoot ==
    /\ At("boot", "OnGameBoot")
    /\ BringUpStep("boot", "OnGameBoot")
    /\ gUbxVideo' = [gUbxVideo EXCEPT !.viModeIndex = DISPLAY_VI_MODE_INDEX]
    /\ task' = [j \in Jobs |-> DefaultGfxTask]
    /\ writes' = {<<TaskName(j[2]), j[1]>> : j \in Jobs}
    /\ Goto("boot", BootNext("OnGameBoot"))
    /\ UNCHANGED <<gUbxSystem, gUbxDevice, osVars, gDrawBufferIndex, gUbxGfxCmd, gfxMem,
                   dirty, hwVars, histVars>>

CreateIdleThread ==
    /\ At("boot", "CreateIdle")
    /\ BringUpStep("boot", "CreateIdle")
    /\ osThread' = [osThread EXCEPT !["idle"] =
                        [state |-> "stopped", pri |-> IDLE_THREAD_PRI, queue |-> NoQueue]]
    /\ Goto("boot", BootNext("CreateIdle"))
    /\ writes' = {}
    /\ UNCHANGED <<cfgVars, running, mq, eventMesg, gDrawBufferIndex, gfxVars, dirty,
                   hwVars, histVars>>

StartIdleThread ==
    /\ At("boot", "StartIdle")
    /\ BringUpStep("boot", "StartIdle")
    /\ LET th == [osThread EXCEPT !["idle"].state = "runnable"] IN
         /\ osThread' = th
         /\ running' = Schedule(th, running)
    /\ Goto("boot", BootNext("StartIdle"))
    /\ writes' = {}
    /\ UNCHANGED <<cfgVars, mq, eventMesg, gDrawBufferIndex, gfxVars, dirty, hwVars, histVars>>

(* ------------------------------------------------------------------ *)
(* idle()                                                              *)
(* ------------------------------------------------------------------ *)
(* Variant: the SP and DP events are bound to each other's queue. *)
EventQueueSwapped(ev) ==
    IF ev = "OS_EVENT_SP" THEN "rdp"
    ELSE IF ev = "OS_EVENT_DP" THEN "rcp"
    ELSE "retrace"

(* Variant: the SP and the DP event are both bound to the RDP queue. *)
EventQueueBothRdp(ev) ==
    IF ev = "OS_EVENT_SP" THEN "rdp"
    ELSE IF ev = "OS_EVENT_DP" THEN "rdp"
    ELSE "retrace"

(* The queue each hardware event is bound to by osSetEventMesg / osViSetEvent. *)
EventQueue(ev) ==
    IF ev = "OS_EVENT_SP" THEN "rcp"
    ELSE IF ev = "OS_EVENT_DP" THEN "rdp"
    ELSE "retrace"

UbxSystemInitialize ==
    /\ At("idle", "SystemInitialize")
    /\ BringUpStep("idle", "SystemInitialize")
    /\ mq' = [mq EXCEPT !["dma"] = CreateMesgQueue(gUbxSystem.dmaMsgQueueLength),
                        !["rcp"] = CreateMesgQueue(gUbxSystem.rcpMsgQueueLength),
                        !["rdp"] = CreateMesgQueue(gUbxSystem.rdpMsgQueueLength)]
    /\ eventMesg' = [eventMesg EXCEPT !["OS_EVENT_SP"] = EventQueue("OS_EVENT_SP"),
                                      !["OS_EVENT_DP"] = EventQueue("OS_EVENT_DP")]
    /\ Goto("idle", IdleNext("SystemInitialize"))
    /\ writes' = {}
    /\ UNCHANGED <<cfgVars, osThread, running, gDrawBufferIndex, gfxVars, dirty, hwVars, histVars>>

UbxVideoInitialize ==
    /\ At("idle", "VideoInitialize")
    /\ BringUpStep("idle", "VideoInitialize")
    /\ viMode' = gUbxVideo.viModeIndex
    /\ mq' = [mq EXCEPT !["retrace"] = CreateMesgQueue(gUbxVideo.retraceMsgQueueLength)]
    /\ eventMesg' = [eventMesg EXCEPT !["VI_RETRACE"] = EventQueue("VI_RETRACE")]
    /\ Goto("idle", IdleNext("VideoInitialize"))
    /\ writes' = {}
    /\ UNCHANGED <<cfgVars, osThread, running, gDrawBufferIndex, gfxVars, dirty,
                   rcp, viNext, viCurrent, histVars>>

UbxDeviceInitialize ==
    /\ At("idle", "DeviceInitialize")
    /\ BringUpStep("idle", "DeviceInitialize")
    /\ mq' = [mq EXCEPT !["pi"] = CreateMesgQueue(gUbxDevice.msgLength)]
    /\ Goto("idle", IdleNext("DeviceInitialize"))
    /\ writes' = {}
    /\ UNCHANGED <<cfgVars, osThread, running, eventMesg, gDrawBufferIndex, gfxVars, dirty,
                   hwVars, histVars>>

OnGameInitialize ==
    /\ At("idle", "OnGameInitialize")
    /\ writes' = {<<"quadVtx", s>> : s \in Slots}
    /\ dirty' = dirty \cup {<<"quadVtx", s>> : s \in Slots}
    /\ viNext' = 1
    /\ lastSwap' = <<"idle", 1>>
    /\ ran' = "idle"
    /\ UNCHANGED toolVars
    /\ bootLog' = Append(bootLog, "OnGameInitialize")
    /\ UNCHANGED <<jobsSubmitted, frameJobs, frameUses>>
    /\ Goto("idle", IdleNext("OnGameInitialize"))
    /\ UNCHANGED <<cfgVars, osVars, gDrawBufferIndex, gfxVars, rcp, viCurrent, viMode, histVars>>

CreateMainThread ==
    /\ At("idle", "CreateMain")
    /\ BringUpStep("idle", "CreateMain")
    /\ osThread' = [osThread EXCEPT !["main"] =
                        [state |-> "stopped", pri |-> MAIN_THREAD_PRI, queue |-> NoQueue]]
    /\ Goto("idle", IdleNext("CreateMain"))
    /\ writes' = {}
    /\ UNCHANGED <<cfgVars, running, mq, eventMesg, gDrawBufferIndex, gfxVars, dirty,
                   hwVars, histVars>>

StartMainThread ==
    /\ At("idle", "StartMain")
    /\ BringUpStep("idle", "StartMain")
    /\ LET th == [osThread EXCEPT !["main"].state = "runnable"] IN
         /\ osThread' = th
         /\ running' = Schedule(th, running)
    /\ Goto("idle", IdleNext("StartMain"))
    /\ writes' = {}
    /\ UNCHANGED <<cfgVars, mq, eventMesg, gDrawBufferIndex, gfxVars, dirty, hwVars, histVars>>

SetIdleThreadPri ==
    /\ At("idle", "SetThreadPri")
    /\ BringUpStep("idle", "SetThreadPri")
    /\ LET th == [osThread EXCEPT !["idle"].pri = IDLE_LOWERED_PRI] IN
         /\ osThread' = th
         /\ running' = Schedule(th, running)
    /\ Goto("idle", IdleNext("SetThreadPri"))
    /\ writes' = {}
    /\ UNCHANGED <<cfgVars, mq, eventMesg, gDrawBufferIndex, gfxVars, dirty, hwVars, histVars>>

(* for(;;) {} : one pass of the idle loop. *)
IdleSpin ==
    /\ At("idle", "spin")
    /\ ran' = "idle"
    /\ UNCHANGED toolVars
    /\ writes' = {}
    /\ UNCHANGED <<pc, cfgVars, osVars, gDrawBufferIndex, gfxVars, dirty, hwVars, histVars,
                   bootLog, lastSwap, jobsSubmitted, frameJobs, frameUses>>

(* Variant: opening a list moves the head only; the tail is set on the very *)
(* first use and kept afterwards.                                           *)
CmdUseKeepTail(headptr) ==
    [pListHead |-> headptr,
     pListTail |-> IF gUbxGfxCmd.pListTail = NULL THEN headptr ELSE gUbxGfxCmd.pListTail]

(* ------------------------------------------------------------------ *)
(* Command list cursor (UBX_GFX_CMD_* macros)                          *)
(* ------------------------------------------------------------------ *)
CmdUse(headptr) == [pListHead |-> headptr, pListTail |-> headptr]

(* UBX_GFX_CMD_NEXT: the word is stored at the old tail, the tail advances. *)
CmdNext(cmd) == [cmd EXCEPT !.pListTail = @ + 1]

CmdCount(cmd) == cmd.pListTail - cmd.pListHead

(* Variant: the size is counted in Gfx words instead of bytes. *)
TaskSetDataWords(t, startptr, endptr) ==
    [t EXCEPT !.data_ptr = startptr, !.data_size = endptr - startptr]

(* UBX_TASK_SET_DATA: pointer and byte difference of the two addresses (the *)
(* tail never lies below the head, so the unsigned difference cannot wrap). *)
TaskSetData(t, startptr, endptr) ==
    [t EXCEPT !.data_ptr = startptr,
              !.data_size = (endptr * SizeofGfx) - (startptr * SizeofGfx)]

(* Gfx cells covered by osWritebackDCache(ptr, size). *)
WritebackCells(ptr, size) ==
    {<<"gfx", a>> : a \in ptr .. (ptr + (size \div SizeofGfx) - 1)}

(* ------------------------------------------------------------------ *)
(* OnGameMainLoop(): statement order of one loop iteration             *)
(* ------------------------------------------------------------------ *)
MainOrder ==
    << "NewFrameUse", "NewFrameAppend", "NewFrameBind", "NewFrameWriteback", "NewFrameSubmit",
       "UpdateVertices", "UpdateVerticesWriteback", "UpdateTransform", "UpdateTransformWriteback",
       "RenderUse", "RenderAppend", "RenderBind", "RenderWriteback",
       "RenderWaitClear", "RenderSubmit", "RenderWaitDraw",
       "RenderSwap", "RenderWaitRetrace", "RenderRotate" >>

SuccIn(order, p) ==
    LET i == CHOOSE n \in 1 .. Len(order) : order[n] = p
    IN  IF i = Len(order) THEN order[1] ELSE order[i + 1]

(* Variants of the statement order. *)
MainNextNoClearWait(p) ==
    SuccIn(SelectSeq(MainOrder, LAMBDA x : x # "RenderWaitClear"), p)

MainNextNoDrawWait(p) ==
    SuccIn(SelectSeq(MainOrder, LAMBDA x : x # "RenderWaitDraw"), p)

MainNextSwapEarly(p) ==
    SuccIn(<< "NewFrameUse", "NewFrameAppend", "NewFrameBind", "NewFrameWriteback",
              "NewFrameSubmit", "UpdateVertices", "UpdateVerticesWriteback",
              "UpdateTransform", "UpdateTransformWriteback",
              "RenderUse", "RenderAppend", "RenderBind", "RenderWriteback",
              "RenderWaitClear", "RenderSubmit", "RenderSwap", "RenderWaitDraw",
              "RenderWaitRetrace", "RenderRotate" >>, p)

MainNextUpdateLate(p) ==
    SuccIn(<< "NewFrameUse", "NewFrameAppend", "NewFrameBind", "NewFrameWriteback",
              "NewFrameSubmit",
              "RenderUse", "RenderAppend", "RenderBind", "RenderWriteback",
              "RenderWaitClear", "RenderSubmit",
              "UpdateVertices", "UpdateVerticesWriteback",
              "UpdateTransform", "UpdateTransformWriteback",
              "RenderWaitDraw", "RenderSwap", "RenderWaitRetrace", "RenderRotate" >>, p)

MainNextUpdateFirst(p) ==
    SuccIn(<< "NewFrameUse", "NewFrameAppend", "NewFrameBind", "NewFrameWriteback",
              "UpdateVertices", "UpdateVerticesWriteback",
              "UpdateTransform", "UpdateTransformWriteback",
              "NewFrameSubmit",
              "RenderUse", "RenderAppend", "RenderBind", "RenderWriteback",
              "RenderWaitClear", "RenderSubmit", "RenderWaitDraw",
              "RenderSwap", "RenderWaitRetrace", "RenderRotate" >>, p)

MainNextNoClearSubmit(p) ==
    SuccIn(SelectSeq(MainOrder, LAMBDA x : x # "NewFrameSubmit"), p)

MainNextBindAfterSubmit(p) ==
    SuccIn(<< "NewFrameUse", "NewFrameAppend", "NewFrameWriteback", "NewFrameSubmit",
              "NewFrameBind",
              "UpdateVertices", "UpdateVerticesWriteback",
              "UpdateTransform", "UpdateTransformWriteback",
              "RenderUse", "RenderAppend", "RenderBind", "RenderWriteback",
              "RenderWaitClear", "RenderSubmit", "RenderWaitDraw",
              "RenderSwap", "RenderWaitRetrace", "RenderRotate" >>, p)

MainNextNoTransformWriteback(p) ==
    SuccIn(SelectSeq(MainOrder, LAMBDA x : x # "UpdateTransformWriteback"), p)

MainNextRotateEarly(p) ==
    SuccIn(<< "NewFrameUse", "NewFrameAppend", "NewFrameBind", "NewFrameWriteback",
              "NewFrameSubmit", "RenderRotate",
              "UpdateVertices", "UpdateVerticesWriteback",
              "UpdateTransform", "UpdateTransformWriteback",
              "RenderUse", "RenderAppend", "RenderBind", "RenderWriteback",
              "RenderWaitClear", "RenderSubmit", "RenderWaitDraw",
              "RenderSwap", "RenderWaitRetrace" >>, p)

MainNext(p) == SuccIn(MainOrder, p)

(* Variant: gDrawBufferIndex |= 1 *)
RotateIndexOr(i) == IF i % 2 = 0 THEN i + 1 ELSE i

(* Variant: the index is never rotated. *)
RotateIndexNone(i) == i

(* gDrawBufferIndex ^= 1 *)
RotateIndex(i) == IF i % 2 = 0 THEN i + 1 ELSE i - 1

(* Variant: osRecvMesg(..., OS_MESG_NOBLOCK) returns at once on an empty queue. *)
RecvMesgNoBlock(loc, qn, ev) ==
    /\ At("main", loc)
    /\ MainStep
    /\ IF mq[qn].msgs # <<>>
       THEN /\ mq' = [mq EXCEPT ![qn].msgs = Tail(@)]
            /\ lastRecv' = Head(mq[qn].msgs)
            /\ frameEvents' = Append(frameEvents, ev)
            /\ unwaited' = IF qn = "rdp" THEN unwaited - 1 ELSE unwaited
            /\ dropped' = dropped \ {qn}
       ELSE UNCHANGED <<mq, lastRecv, frameEvents, unwaited, dropped>>
    /\ Goto("main", MainNext(loc))
    /\ writes' = {}
    /\ UNCHANGED <<cfgVars, osThread, running, eventMesg, gDrawBufferIndex, gfxVars, dirty,
                   hwVars, closed, frameNo>>

(* Blocking receive of the main thread on queue qn at location loc. *)
RecvMesg(loc, qn, ev) ==
    /\ At("main", loc)
    /\ MainStep
    /\ IF mq[qn].msgs # <<>>
       THEN /\ mq' = [mq EXCEPT ![qn].msgs = Tail(@)]
            /\ lastRecv' = Head(mq[qn].msgs)
            /\ frameEvents' = Append(frameEvents, ev)
            /\ unwaited' = IF qn = "rdp" THEN unwaited - 1 ELSE unwaited
            /\ dropped' = dropped \ {qn}
            /\ Goto("main", MainNext(loc))
            /\ UNCHANGED <<osThread, running>>
       ELSE /\ osThread' = [osThread EXCEPT !["main"].state = "waiting", !["main"].queue = qn]
            /\ running' = Schedule(osThread', running)
            /\ UNCHANGED <<mq, lastRecv, frameEvents, unwaited, dropped, pc>>
    /\ writes' = {}
    /\ UNCHANGED <<cfgVars, eventMesg, gDrawBufferIndex, gfxVars, dirty, hwVars,
                   closed, frameNo>>

(* Build steps shared by the clear and the draw list of the current slot. *)
BuildUse(loc, k) ==
    /\ At("main", loc)
    /\ ran' = "main"
    /\ UNCHANGED toolVars
    /\ UNCHANGED <<bootLog, lastSwap, jobsSubmitted>>
    /\ gUbxGfxCmd' = CmdUse(CmdAddr(gDrawBufferIndex, k))
    /\ Goto("main", MainNext(loc))
    /\ writes' = {}
    /\ UNCHANGED <<cfgVars, osVars, gDrawBufferIndex, gfxMem, task, dirty, hwVars,
                   closed, lastRecv, unwaited, frameNo, dropped>>

BuildAppend(loc, k) ==
    /\ At("main", loc)
    /\ MainStepUsing(PerSlotOperand(k, CmdCount(gUbxGfxCmd) + 1), gDrawBufferIndex)
    /\ LET n == CmdCount(gUbxGfxCmd)
           a == gUbxGfxCmd.pListTail
       IN  /\ n < Len(OpsOf(k))
           /\ gfxMem' = (a :> OpsOf(k)[n + 1]) @@ gfxMem
           /\ gUbxGfxCmd' = CmdNext(gUbxGfxCmd)
           /\ writes' = {RegionOf(a)}
           /\ dirty' = dirty \cup {<<"gfx", a>>}
           /\ IF n + 1 = Len(OpsOf(k)) THEN Goto("main", MainNext(loc)) ELSE UNCHANGED pc
    /\ UNCHANGED <<cfgVars, osVars, gDrawBufferIndex, task, hwVars, histVars>>

BuildBind(loc, k) ==
    /\ At("main", loc)
    /\ MainStep
    /\ task' = [task EXCEPT ![<<gDrawBufferIndex, k>>] =
                    TaskSetData(@, gUbxGfxCmd.pListHead, gUbxGfxCmd.pListTail)]
    /\ closed' = closed \cup {<<gDrawBufferIndex, k>>}
    /\ writes' = {<<TaskName(k), gDrawBufferIndex>>}
    /\ Goto("main", MainNext(loc))
    /\ UNCHANGED <<cfgVars, osVars, gDrawBufferIndex, gUbxGfxCmd, gfxMem, dirty, hwVars,
                   frameEvents, lastRecv, unwaited, frameNo, dropped>>

BuildWriteback(loc, k) ==
    /\ At("main", loc)
    /\ MainStep
    /\ LET t == task[<<gDrawBufferIndex, k>>]
       IN  dirty' = dirty \ WritebackCells(t.data_ptr, t.data_size)
    /\ writes' = {}
    /\ Goto("main", MainNext(loc))
    /\ UNCHANGED <<cfgVars, osVars, gDrawBufferIndex, gfxVars, hwVars, histVars>>

(* osSpTaskStart: the job enters the coprocessor. *)
SpTaskStart(loc, k) ==
    /\ At("main", loc)
    /\ rcp' = [rcp EXCEPT ![<<gDrawBufferIndex, k>>] = "sp"]
    /\ unwaited' = unwaited + 1
    /\ frameEvents' = Append(frameEvents, "submit_" \o k)
    /\ jobsSubmitted' = Min(jobsSubmitted + 1, 2 * MaxFrames)
    /\ frameJobs' = Append(frameJobs, <<gDrawBufferIndex, k>>)
    /\ ran' = "main"
    /\ UNCHANGED toolVars
    /\ UNCHANGED <<bootLog, lastSwap, frameUses>>
    /\ writes' = {}
    /\ Goto("main", MainNext(loc))
    /\ UNCHANGED <<cfgVars, osVars, gDrawBufferIndex, gfxVars, dirty, viNext, viCurrent, viMode,
                   closed, lastRecv, frameNo, dropped>>

(* ------------------------------------------------------------------ *)
(* _OnGameNewFrame()                                                   *)
(* ------------------------------------------------------------------ *)
NewFrameUse ==
    /\ BuildUse("NewFrameUse", "clear")
    /\ frameEvents' = <<>>
    /\ frameJobs' = <<>>
    /\ frameUses' = {}

NewFrameAppend == BuildAppend("NewFrameAppend", "clear")

NewFrameBind == BuildBind("NewFrameBind", "clear")

NewFrameWriteback == BuildWriteback("NewFrameWriteback", "clear")

NewFrameSubmit == SpTaskStart("NewFrameSubmit", "clear")

(* ------------------------------------------------------------------ *)
(* _OnGameUpdate()                                                     *)
(* ------------------------------------------------------------------ *)
UpdateWrite(loc, region) ==
    /\ At("main", loc)
    /\ MainStepUsing(region, gDrawBufferIndex)
    /\ writes' = {<<region, gDrawBufferIndex>>}
    /\ dirty' = dirty \cup {<<region, gDrawBufferIndex>>}
    /\ Goto("main", MainNext(loc))
    /\ UNCHANGED <<cfgVars, osVars, gDrawBufferIndex, gfxVars, hwVars, histVars>>

UpdateWriteback(loc, region) ==
    /\ At("main", loc)
    /\ MainStep
    /\ writes' = {}
    /\ dirty' = dirty \ {<<region, gDrawBufferIndex>>}
    /\ Goto("main", MainNext(loc))
    /\ UNCHANGED <<cfgVars, osVars, gDrawBufferIndex, gfxVars, hwVars, histVars>>

UpdateVertices == UpdateWrite("UpdateVertices", "quadVtx")

UpdateVerticesWriteback == UpdateWriteback("UpdateVerticesWriteback", "quadVtx")

UpdateTransform == UpdateWrite("UpdateTransform", "transform")

UpdateTransformWriteback == UpdateWriteback("UpdateTransformWriteback", "transform")

(* ------------------------------------------------------------------ *)
(* _OnGameRender()                                                     *)
(* ------------------------------------------------------------------ *)
RenderUse ==
    /\ BuildUse("RenderUse", "draw")
    /\ UNCHANGED <<frameEvents, frameJobs, frameUses>>

RenderAppend == BuildAppend("RenderAppend", "draw")

RenderBind == BuildBind("RenderBind", "draw")

RenderWriteback == BuildWriteback("RenderWriteback", "draw")

(* Variant: the wait for the clear task receives from rcpMsgQueue. *)
RenderWaitClearOnRcp == RecvMesg("RenderWaitClear", "rcp", "recv_rdp")

RenderWaitClear == RecvMesg("RenderWaitClear", "rdp", "recv_rdp")

(* Variant: the render hook starts the clear task a second time. *)
RenderSubmitClear == SpTaskStart("RenderSubmit", "clear")

RenderSubmit == SpTaskStart("RenderSubmit", "draw")

RenderWaitDraw == RecvMesg("RenderWaitDraw", "rdp", "recv_rdp")

RenderSwap ==
    /\ At("main", "RenderSwap")
    /\ viNext' = gDrawBufferIndex
    /\ lastSwap' = <<"main", gDrawBufferIndex>>
    /\ frameUses' = frameUses \cup {<<"present", gDrawBufferIndex>>}
    /\ ran' = "main"
    /\ UNCHANGED toolVars
    /\ UNCHANGED <<bootLog, jobsSubmitted, frameJobs>>
    /\ frameEvents' = Append(frameEvents, "swap")
    /\ writes' = {}
    /\ Goto("main", MainNext("RenderSwap"))
    /\ UNCHANGED <<cfgVars, osVars, gDrawBufferIndex, gfxVars, dirty, rcp, viCurrent, viMode,
                   closed, lastRecv, unwaited, frameNo, dropped>>

RenderWaitRetrace == RecvMesg("RenderWaitRetrace", "retrace", "recv_retrace")

RenderRotate ==
    /\ At("main", "RenderRotate")
    /\ MainStep
    /\ gDrawBufferIndex' = RotateIndex(gDrawBufferIndex)
    /\ frameEvents' = Append(frameEvents, "rotate")
    /\ frameNo' = Min(frameNo + 1, MaxFrames)
    /\ writes' = {}
    /\ Goto("main", MainNext("RenderRotate"))
    /\ UNCHANGED <<cfgVars, osVars, gfxVars, dirty, hwVars, closed, lastRecv, unwaited, dropped>>

(* ------------------------------------------------------------------ *)
(* Hardware                                                            *)
(* ------------------------------------------------------------------ *)
(* The RSP finishes reading the command list of job j (SP interrupt). *)
SpDone(j) ==
    /\ rcp[j] = "sp"
    /\ rcp' = [rcp EXCEPT ![j] = "dp"]
    /\ RaiseEvent("OS_EVENT_SP", j)
    /\ HwStep
    /\ writes' = {}
    /\ UNCHANGED <<pc, cfgVars, eventMesg, gDrawBufferIndex, gfxVars, dirty, viNext, viCurrent,
                   viMode, closed, frameEvents, lastRecv, unwaited, frameNo>>

(* The RDP reaches the full sync of job j (DP interrupt): the job is complete. *)
DpDone(j) ==
    /\ rcp[j] = "dp"
    /\ rcp' = [rcp EXCEPT ![j] = "none"]
    /\ closed' = closed \ {j}
    /\ RaiseEvent("OS_EVENT_DP", j)
    /\ HwStep
    /\ writes' = {}
    /\ UNCHANGED <<pc, cfgVars, eventMesg, gDrawBufferIndex, gfxVars, dirty, viNext, viCurrent,
                   viMode, frameEvents, lastRecv, unwaited, frameNo>>

(* Vertical retrace: the VI switches to the requested framebuffer and the *)
(* VI manager posts the retrace message.                                  *)
Retrace ==
    /\ eventMesg["VI_RETRACE"] # NoQueue
    /\ viCurrent' = viNext
    /\ RaiseEvent("VI_RETRACE", <<viNext, "retrace">>)
    /\ HwStep
    /\ writes' = {}
    /\ UNCHANGED <<pc, cfgVars, eventMesg, gDrawBufferIndex, gfxVars, dirty, rcp, viNext,
                   viMode, closed, frameEvents, lastRecv, unwaited, frameNo>>

(* ------------------------------------------------------------------ *)
Next ==
    \/ osInitialize
    \/ UbxSystemSetDefaults
    \/ UbxVideoSetDefaults
    \/ UbxDeviceSetDefaults
    \/ OnGameBoot
    \/ CreateIdleThread
    \/ StartIdleThread
    \/ UbxSystemInitialize
    \/ UbxVideoInitialize
    \/ UbxDeviceInitialize
    \/ OnGameInitialize
    \/ CreateMainThread
    \/ StartMainThread
    \/ SetIdleThreadPri
    \/ IdleSpin
    \/ NewFrameUse
    \/ NewFrameAppend
    \/ NewFrameBind
    \/ NewFrameWriteback
    \/ NewFrameSubmit
    \/ UpdateVertices
    \/ UpdateVerticesWriteback
    \/ UpdateTransform
    \/ UpdateTransformWriteback
    \/ RenderUse
    \/ RenderAppend
    \/ RenderBind
    \/ RenderWriteback
    \/ RenderWaitClear
    \/ RenderSubmit
    \/ RenderWaitDraw
    \/ RenderSwap
    \/ RenderWaitRetrace
    \/ RenderRotate
    \/ \E j \in Jobs : SpDone(j)
    \/ \E j \in Jobs : DpDone(j)
    \/ Retrace

Spec == Init /\ [][Next]_vars

(* ------------------------------------------------------------------ *)
(* Fair runs: the CPU keeps executing the context that holds it, the   *)
(* RSP and the RDP finish every task they were given, and the VI keeps *)
(* raising vertical retraces.                                          *)
(* ------------------------------------------------------------------ *)
BringUpStepTaken ==
    \/ osInitialize
    \/ UbxSystemSetDefaults
    \/ UbxVideoSetDefaults
    \/ UbxDeviceSetDefaults
    \/ OnGameBoot
    \/ CreateIdleThread
    \/ StartIdleThread
    \/ UbxSystemInitialize
    \/ UbxVideoInitialize
    \/ UbxDeviceInitialize
    \/ OnGameInitialize
    \/ CreateMainThread
    \/ StartMainThread
    \/ SetIdleThreadPri

MainLoopStepTaken ==
    \/ NewFrameUse
    \/ NewFrameAppend
    \/ NewFrameBind
    \/ NewFrameWriteback
    \/ NewFrameSubmit
    \/ UpdateVertices
    \/ UpdateVerticesWriteback
    \/ UpdateTransform
    \/ UpdateTransformWriteback
    \/ RenderUse
    \/ RenderAppend
    \/ RenderBind
    \/ RenderWriteback
    \/ RenderWaitClear
    \/ RenderSubmit
    \/ RenderWaitDraw
    \/ RenderSwap
    \/ RenderWaitRetrace
    \/ RenderRotate

Fairness ==
    /\ WF_vars(BringUpStepTaken)
    /\ WF_vars(MainLoopStepTaken)
    /\ \A j \in Jobs : WF_vars(SpDone(j)) /\ WF_vars(DpDone(j))
    /\ WF_vars(Retrace)

SpecFair == Spec /\ Fairness

(* ------------------------------------------------------------------ *)
(* The command list cursor on its own: the clear list of either slot   *)
(* is opened and words are appended through UBX_GFX_CMD_NEXT, up to    *)
(* MaxOverflow words more than the list can hold.                      *)
(* ------------------------------------------------------------------ *)
BuilderUse(s) ==
    /\ gUbxGfxCmd' = CmdUse(CmdAddr(s, "clear"))
    /\ writes' = {}
    /\ UNCHANGED <<pc, cfgVars, osVars, gDrawBufferIndex, gfxMem, task, dirty, hwVars, histVars,
                   logVars, toolVars>>

BuilderAppend ==
    /\ gUbxGfxCmd.pListHead # NULL
    /\ CmdCount(gUbxGfxCmd) < GFX_CLEAR_CMD_LENGTH + MaxOverflow
    /\ gfxMem' = (gUbxGfxCmd.pListTail :> "gDPNoOp") @@ gfxMem
    /\ gUbxGfxCmd' = CmdNext(gUbxGfxCmd)
    /\ writes' = {RegionOf(gUbxGfxCmd.pListTail)}
    /\ dirty' = dirty \cup {<<"gfx", gUbxGfxCmd.pListTail>>}
    /\ UNCHANGED <<pc, cfgVars, osVars, gDrawBufferIndex, task, hwVars, histVars, logVars,
                   toolVars>>

NextBuilder ==
    \/ \E s \in Slots : BuilderUse(s)
    \/ BuilderAppend

SpecBuilder == Init /\ [][NextBuilder]_vars

(* ------------------------------------------------------------------ *)
(* tools/native/common: FileBuffer::Read and FileBuffer::Write         *)
(* A file is absent or holds a sequence of bytes; a call of Read is    *)
(* drawn from files of up to MaxFileSize bytes, minimum sizes up to    *)
(* MaxMinSize, the alignments 0, 1, 2, 3, 4 and 8 and the fill bytes   *)
(* 0x00 and 0xFF.                                                      *)
(* ------------------------------------------------------------------ *)
MaxFileSize == 3
MaxMinSize == 5

RECURSIVE SeqsUpTo(_, _)
SeqsUpTo(S, n) ==
    IF n = 0 THEN {<<>>}
    ELSE LET shorter == SeqsUpTo(S, n - 1)
         IN shorter \cup {Append(q, x) : q \in {r \in shorter : Len(r) = n - 1}, x \in S}

(* The files of up to n bytes, and the file that cannot be opened. *)
Files(n) ==
    {[exists |-> FALSE, bytes |-> <<>>]}
        \cup {[exists |-> TRUE, bytes |-> b] : b \in SeqsUpTo({0, 65, 255}, n)}

(* x & ~y on size_t: the bits of x that are clear in y. *)
RECURSIVE AndNot(_, _)
AndNot(x, y) ==
    IF x = 0 THEN 0
    ELSE (x % 2) * (1 - (y % 2)) + 2 * AndNot(x \div 2, y \div 2)

(* Variant: the padded size is rounded down to the alignment. *)
PaddedFileSizeRoundDown(fileSize, minSize, padAlign) ==
    LET paddedFileSize == IF fileSize < minSize THEN minSize ELSE fileSize
    IN  IF padAlign > 0 THEN AndNot(paddedFileSize, padAlign - 1) ELSE paddedFileSize

PaddedFileSize(fileSize, minSize, padAlign) ==
    LET paddedFileSize == IF fileSize < minSize THEN minSize ELSE fileSize
    IN  IF padAlign > 0
        THEN AndNot(paddedFileSize + (padAlign - 1), padAlign - 1)
        ELSE paddedFileSize

(* The buffer Read builds: allocated zeroed, filled past the file's    *)
(* size, then the file's bytes read over its start.                    *)
ReadData(file, paddedFileSize, fillByte) ==
    LET fileSize == Len(file.bytes)
        allocated == [i \in 1..paddedFileSize |-> 0]
        filled == [i \in 1..paddedFileSize |->
                      IF fileSize < paddedFileSize /\ i > fileSize THEN fillByte
                      ELSE allocated[i]]
    IN  [i \in 1..paddedFileSize |-> IF i <= fileSize THEN file.bytes[i] ELSE filled[i]]

Read(file, minSize, padAlign, fillByte) ==
    IF ~file.exists THEN [fn |-> "Read", ok |-> FALSE, length |-> 0, data |-> <<>>]
    ELSE IF Len(file.bytes) = 0 THEN [fn |-> "Read", ok |-> FALSE, length |-> 0, data |-> <<>>]
    ELSE LET paddedFileSize == PaddedFileSize(Len(file.bytes), minSize, padAlign)
         IN  [fn |-> "Read", ok |-> TRUE, length |-> paddedFileSize,
              data |-> ReadData(file, paddedFileSize, fillByte)]

InitFileBuffer ==
    /\ ColdStart
    /\ readCall \in [fn : {"Read"}, file : Files(MaxFileSize), minSize : 0..MaxMinSize,
                     padAlign : {0, 1, 2, 3, 4, 8}, fillByte : {0, 255}]
    /\ output = NotRun
    /\ args = NotRun
    /\ disk = NotRun
    /\ maskrom = NotRun
    /\ call = NotRun
    /\ result = NotRun

FileBufferRead ==
    /\ readCall.fn = "Read"
    /\ output = NotRun
    /\ output' = Read(readCall.file, readCall.minSize, readCall.padAlign, readCall.fillByte)
    /\ UNCHANGED <<gameVars, args, disk, maskrom, readCall, call, result>>

NextFileBuffer == FileBufferRead

SpecFileBuffer == InitFileBuffer /\ [][NextFileBuffer]_vars

(* ------------------------------------------------------------------ *)
(* tools/native/maskrom64: main() and ProcessRom()                     *)
(* The command line is drawn from absent, empty and non-empty option   *)
(* values; the bootcode and input files from absent, empty and the     *)
(* sizes around the padded ROM length. Buffers are kept by length.     *)
(* ------------------------------------------------------------------ *)
APP_EXIT_SUCCESS == 0
APP_EXIT_FAILURE == 1

oneMbitInBytes == 131072
checksumEnd == 4096 + 1048576
bootCodeOffset == 64

(* An option of the command line: <<>> when it is not given, <<v>> when *)
(* it is given with the value v. The same for a value not yet set.      *)
Absent == <<>>
Given(v) == <<v>>
Option(S) == {Absent} \cup {Given(v) : v \in S}
ValueOf(o) == o[1]

(* File sizes on disk; Missing stands for a file fopen cannot open. *)
Missing == 0 - 1

(* The game code is given by its length; the sizes of boot.bin lie     *)
(* around the length a small rom.z64 is padded to.                     *)
InitMaskRom ==
    /\ ColdStart
    /\ args \in [fn : {"maskrom64"}, help : BOOLEAN,
                 input_file : Option({"", "rom.z64"}),
                 output : Option({"", "out.z64"}),
                 bootcode : Option({"", "boot.bin"}),
                 id : Option({6101, 6102, 6103, 6104, 6105, 6106}),
                 gamecode : Option({3, 4})]
    /\ LET padded == PaddedFileSize(1, checksumEnd, oneMbitInBytes)
       IN  disk \in [fn : {"maskrom64"},
                     bootcode : {Missing, 0, 4032, padded - bootCodeOffset,
                                 padded - bootCodeOffset + 1, padded, padded + 1},
                     input : {Missing, 0, 1, padded + 1},
                     writable : BOOLEAN, outputOpened : {FALSE}, outputWritten : {FALSE}]
    /\ maskrom = [fn |-> "maskrom64", pc |-> "main", log |-> <<>>, exit |-> Absent,
                  ret |-> Absent, inputFilePath |-> "", outputFilePath |-> "",
                  bootCodeFilePath |-> "", bootCodeId |-> 0, bootCodeFile |-> 0,
                  romFile |-> 0, copyEnd |-> 0]
    /\ readCall = NotRun
    /\ output = NotRun
    /\ call = NotRun
    /\ result = NotRun

(* FileBuffer::Read by length: <<ok, length>>. *)
ReadLength(d, path, minSize, padAlign) ==
    LET fileSize == IF path = "boot.bin" THEN d.bootcode
                    ELSE IF path = "rom.z64" THEN d.input
                    ELSE Missing
    IN  IF fileSize = Missing THEN <<FALSE, 0>>
        ELSE IF fileSize = 0 THEN <<FALSE, 0>>
        ELSE <<TRUE, PaddedFileSize(fileSize, minSize, padAlign)>>

ExitWith(m, code, msgs) ==
    [m EXCEPT !.pc = "exit", !.exit = Given(code), !.log = m.log \o msgs]

ReturnFalse(m, msg) ==
    [m EXCEPT !.pc = "returned", !.ret = Given(FALSE), !.log = Append(m.log, msg)]

(* main() up to the call of ProcessRom. *)
Main ==
    /\ maskrom.fn = "maskrom64"
    /\ maskrom.pc = "main"
    /\ maskrom' =
         IF args.help THEN ExitWith(maskrom, APP_EXIT_SUCCESS, <<>>)
         ELSE IF args.input_file = Absent
         THEN ExitWith(maskrom, APP_EXIT_FAILURE, <<"Missing required argument: <input_file>">>)
         ELSE IF ValueOf(args.input_file) = ""
         THEN ExitWith(maskrom, APP_EXIT_FAILURE, <<"Input file path is empty">>)
         ELSE IF args.output # Absent /\ ValueOf(args.output) = ""
         THEN ExitWith(maskrom, APP_EXIT_FAILURE, <<"Output file path is empty">>)
         ELSE IF args.bootcode = Absent
         THEN ExitWith(maskrom, APP_EXIT_FAILURE, <<"Missing required argument: --bootcode">>)
         ELSE IF ValueOf(args.input_file) = ""
         THEN ExitWith(maskrom, APP_EXIT_FAILURE, <<"Bootcode file path is empty">>)
         ELSE IF args.id = Absent
         THEN ExitWith(maskrom, APP_EXIT_FAILURE, <<"Missing required argument: --id">>)
         ELSE IF (IF args.gamecode = Absent THEN 4 ELSE ValueOf(args.gamecode)) # 4
         THEN ExitWith(maskrom, APP_EXIT_FAILURE,
                       <<"Specified game code is not exactly 4 characters long">>)
         ELSE [maskrom EXCEPT !.pc = "ProcessRom",
                              !.inputFilePath = ValueOf(args.input_file),
                              !.outputFilePath =
                                  IF args.output # Absent THEN ValueOf(args.output)
                                  ELSE ValueOf(args.input_file),
                              !.bootCodeFilePath = ValueOf(args.bootcode),
                              !.bootCodeId = ValueOf(args.id)]
    /\ UNCHANGED <<gameVars, args, disk, readCall, output, call, result>>

RomStep(from) ==
    /\ maskrom.fn = "maskrom64"
    /\ maskrom.pc = from
    /\ UNCHANGED <<gameVars, args, readCall, output, call, result>>

(* The assertions at the entry of ProcessRom: a build with assertions  *)
(* aborts on an empty path, a build with NDEBUG goes on.               *)
ProcessRomEnter ==
    /\ RomStep("ProcessRom")
    /\ \/ maskrom' = [maskrom EXCEPT !.pc = "ReadBootCode"]
       \/ /\ "" \in {maskrom.inputFilePath, maskrom.outputFilePath, maskrom.bootCodeFilePath}
          /\ maskrom' = [maskrom EXCEPT !.pc = "aborted"]
    /\ UNCHANGED disk

ReadBootCode ==
    /\ RomStep("ReadBootCode")
    /\ LET r == ReadLength(disk, maskrom.bootCodeFilePath, 0, 0)
       IN  maskrom' = IF r[1] THEN [maskrom EXCEPT !.pc = "ReadRom", !.bootCodeFile = r[2]]
                      ELSE ReturnFalse(maskrom, "Failed to load bootcode file")
    /\ UNCHANGED disk

(* Variant: the output file is opened before the input file is read. *)
ReadRomOpensOutput ==
    /\ RomStep("ReadRom")
    /\ LET r == ReadLength(disk, maskrom.inputFilePath, checksumEnd, oneMbitInBytes)
       IN  maskrom' = IF r[1] THEN [maskrom EXCEPT !.pc = "CheckLength", !.romFile = r[2]]
                      ELSE ReturnFalse(maskrom, "Failed to load input file")
    /\ disk' = [disk EXCEPT !.outputOpened = TRUE]

ReadRom ==
    /\ RomStep("ReadRom")
    /\ LET r == ReadLength(disk, maskrom.inputFilePath, checksumEnd, oneMbitInBytes)
       IN  maskrom' = IF r[1] THEN [maskrom EXCEPT !.pc = "CheckLength", !.romFile = r[2]]
                      ELSE ReturnFalse(maskrom, "Failed to load input file")
    /\ UNCHANGED disk

CheckLength ==
    /\ RomStep("CheckLength")
    /\ maskrom' = IF maskrom.bootCodeFile > maskrom.romFile
                  THEN ReturnFalse(maskrom, "Length of bootcode file exceeds length of ROM file")
                  ELSE [maskrom EXCEPT !.pc = "PatchHeader"]
    /\ UNCHANGED disk

(* Reserved bytes, title, game code and ROM version: all below 0x40. *)
PatchHeader ==
    /\ RomStep("PatchHeader")
    /\ maskrom' = [maskrom EXCEPT !.pc = "InsertBootCode"]
    /\ UNCHANGED disk

(* memcpy(rom + 0x40, bootcode, bootcode length); a copy that runs past *)
(* the buffer is undefined: the process goes on or dies.                *)
InsertBootCode ==
    /\ RomStep("InsertBootCode")
    /\ LET copyEnd == bootCodeOffset + maskrom.bootCodeFile
       IN  \/ maskrom' = [maskrom EXCEPT !.pc = "SelectSeed", !.copyEnd = copyEnd]
           \/ /\ copyEnd > maskrom.romFile
              /\ maskrom' = [maskrom EXCEPT !.pc = "crashed", !.copyEnd = copyEnd]
    /\ UNCHANGED disk

SelectSeed ==
    /\ RomStep("SelectSeed")
    /\ maskrom' = IF maskrom.bootCodeId \in {6101, 6102, 6103, 6105, 6106}
                  THEN [maskrom EXCEPT !.pc = "Checksum"]
                  ELSE ReturnFalse(maskrom, "Unsupported bootcode ID")
    /\ UNCHANGED disk

(* The checksum loop reads [checksumStart, checksumEnd) and stores the *)
(* two words at 0x10: in the buffer only.                              *)
Checksum ==
    /\ RomStep("Checksum")
    /\ maskrom' = [maskrom EXCEPT !.pc = "WriteOutput"]
    /\ UNCHANGED disk

(* FileBuffer::Write(outputFilePath, romFile). *)
WriteOutput ==
    /\ RomStep("WriteOutput")
    /\ IF disk.writable /\ maskrom.outputFilePath # ""
       THEN /\ disk' = [disk EXCEPT !.outputOpened = TRUE, !.outputWritten = TRUE]
            /\ maskrom' = [maskrom EXCEPT !.pc = "returned", !.ret = Given(TRUE)]
       ELSE /\ disk' = disk
            /\ maskrom' = ReturnFalse(maskrom, "Failed to write output file")

MainReturn ==
    /\ RomStep("returned")
    /\ maskrom' = ExitWith(maskrom,
                           IF ValueOf(maskrom.ret) THEN APP_EXIT_SUCCESS ELSE APP_EXIT_FAILURE,
                           <<>>)
    /\ UNCHANGED disk

NextMaskRom ==
    \/ Main
    \/ ProcessRomEnter
    \/ ReadBootCode
    \/ ReadRom
    \/ CheckLength
    \/ PatchHeader
    \/ InsertBootCode
    \/ SelectSeed
    \/ Checksum
    \/ WriteOutput
    \/ MainReturn

SpecMaskRom == InitMaskRom /\ [][NextMaskRom]_vars

(* ------------------------------------------------------------------ *)
(* tools/native/ubxpipeline: ValidateAssetName, ResolveAssetType,      *)
(* JoinPath and ProcessManifest                                        *)
(* A string is the sequence of its character codes. A call is drawn    *)
(* from paths of up to MaxPathLen characters, names of up to           *)
(* MaxNameLen characters and manifests of up to MaxNodes child nodes.  *)
(* ------------------------------------------------------------------ *)
MaxPathLen == 2
MaxNameLen == 3
MaxNodes == 2

PATH_SEP_CHR == 47
ASSET_TYPE__COUNT == 5
gAssetType == <<"animation", "model", "music", "sfx", "texture">>

isSymbol(c) == c = 95 \/ c = 36

isNumber(c) == c >= 48 /\ c <= 57

(* Variant: one range from 'A' to 'z'. *)
isAlphaOneRange(c) == c >= 65 /\ c <= 122

isAlpha(c) == (c >= 97 /\ c <= 122) \/ (c >= 65 /\ c <= 90)

(* What name[0] reads: the first character, or, for an empty name, the *)
(* character behind the view (a NUL or the closing quote of the key).  *)
FirstChars(name) == IF Len(name) = 0 THEN {0, 34} ELSE {name[1]}

(* ValidateAssetName, given the character c0 that name[0] read. *)
ValidateAssetName(name, c0) ==
    IF c0 = 0 \/ Len(name) = 0 THEN FALSE
    ELSE IF isNumber(name[1]) THEN FALSE
    ELSE IF ~isAlpha(name[1]) /\ ~isSymbol(name[1]) THEN FALSE
    ELSE \A i \in 2..Len(name) : isNumber(name[i]) \/ isAlpha(name[i]) \/ isSymbol(name[i])

RECURSIVE ResolveFrom(_, _)
ResolveFrom(typeString, i) ==
    IF i >= ASSET_TYPE__COUNT THEN ASSET_TYPE__COUNT
    ELSE IF typeString = gAssetType[i + 1] THEN i
    ELSE ResolveFrom(typeString, i + 1)

ResolveAssetType(typeString) == ResolveFrom(typeString, 0)

JoinPath(left, right) ==
    IF Len(left) = 0 \/ Len(right) = 0 THEN <<>>
    ELSE IF Len(left) = 0 THEN right
    ELSE IF Len(right) = 0 THEN left
    ELSE Append(left, PATH_SEP_CHR) \o right

(* A child node of the manifest's root: whether it is an object, its   *)
(* key, and its "type" member if it has one.                           *)
ChildNodes(keys) ==
    [isObject : BOOLEAN,
     key : keys,
     type : Option({[isString |-> FALSE, string |-> ""]}
                       \cup {[isString |-> TRUE, string |-> t] :
                                t \in {"texture", "sfx", "bitmap"}})]

(* The loop over the child nodes, from the value of success so far. *)
RECURSIVE ProcessNodes(_, _)
ProcessNodes(nodes, success) ==
    IF nodes = <<>> THEN success
    ELSE LET childNode == Head(nodes)
             after ==
                 IF ~childNode.isObject THEN success
                 ELSE IF ~ValidateAssetName(childNode.key, childNode.key[1]) THEN success
                 ELSE IF childNode.type = Absent THEN FALSE
                 ELSE IF ~ValueOf(childNode.type).isString THEN FALSE
                 ELSE IF ResolveAssetType(ValueOf(childNode.type).string) = ASSET_TYPE__COUNT
                 THEN success
                 ELSE success
         IN  ProcessNodes(Tail(nodes), after)

(* The manifest file: unreadable, not JSON, or a root with child nodes. *)
ProcessManifest(manifest) ==
    IF ~manifest.readable THEN FALSE
    ELSE IF ~manifest.parses THEN FALSE
    ELSE ProcessNodes(manifest.nodes, TRUE)

(* A call of one of the functions; the arguments of the others are empty. *)
NoArgs(fn) ==
    [fn |-> fn, left |-> <<>>, right |-> <<>>, name |-> <<>>,
     manifest |-> [readable |-> FALSE, parses |-> FALSE, nodes |-> <<>>]]

(* Paths over 'o' and 'x'; names over NUL $ / 0 9 : @ A Z [ _ ` a z {; *)
(* manifests that cannot be read, that are not JSON, and parsed ones.   *)
PipelineCalls(maxPath, maxName, maxNodes) ==
    LET paths == SeqsUpTo({111, 120}, maxPath)
        names == SeqsUpTo({0, 36, 47, 48, 57, 58, 64, 65, 90, 91, 95, 96, 97, 122, 123},
                          maxName)
        manifests ==
            {[readable |-> r, parses |-> FALSE, nodes |-> <<>>] : r \in BOOLEAN}
                \cup {[readable |-> TRUE, parses |-> TRUE, nodes |-> n] :
                         n \in SeqsUpTo(ChildNodes({<<97>>, <<57, 97>>, <<97, 47>>}), maxNodes)}
    IN  {[NoArgs("JoinPath") EXCEPT !.left = l, !.right = r] : l \in paths, r \in paths}
        \cup {[NoArgs("ValidateAssetName") EXCEPT !.name = n] : n \in names}
        \cup {[NoArgs("ProcessManifest") EXCEPT !.manifest = m] : m \in manifests}

InitPipeline ==
    /\ ColdStart
    /\ call \in PipelineCalls(MaxPathLen, MaxNameLen, MaxNodes)
    /\ result = NotRun
    /\ args = NotRun
    /\ disk = NotRun
    /\ maskrom = NotRun
    /\ readCall = NotRun
    /\ output = NotRun

PipelineStep(fn) ==
    /\ call.fn = fn
    /\ result = NotRun
    /\ UNCHANGED <<gameVars, args, disk, maskrom, readCall, output, call>>

CallJoinPath ==
    /\ PipelineStep("JoinPath")
    /\ result' = [fn |-> "JoinPath", ret |-> Given(JoinPath(call.left, call.right))]

(* The read of name[0] is out of bounds for an empty name: it yields   *)
(* some character, or a checked library ends the process.              *)
CallValidateAssetName ==
    /\ PipelineStep("ValidateAssetName")
    /\ \/ \E c0 \in FirstChars(call.name) :
            result' = [fn |-> "ValidateAssetName",
                       ret |-> Given(ValidateAssetName(call.name, c0))]
       \/ /\ Len(call.name) = 0
          /\ result' = [fn |-> "ValidateAssetName", ret |-> Absent]

CallProcessManifest ==
    /\ PipelineStep("ProcessManifest")
    /\ result' = [fn |-> "ProcessManifest", ret |-> Given(ProcessManifest(call.manifest))]

NextPipeline ==
    \/ CallJoinPath
    \/ CallValidateAssetName
    \/ CallProcessManifest

SpecPipeline == InitPipeline /\ [][NextPipeline]_vars

(* ================================================================== *)
(* Properties                                                          *)
(* ================================================================== *)
InFlight == {j \in Jobs : rcp[j] # "none"}

MainAt(loc) == running = "main" /\ pc["main"] = loc

Occurs(ev) == \E i \in DOMAIN frameEvents : frameEvents[i] = ev

CurSlot == gDrawBufferIndex

(* C1: the clear job has completed when the draw job is submitted, the    *)
(* draw job has completed when the frame is presented, each rasterizer    *)
(* wait is satisfied by the signal of the job it waits for, and at most   *)
(* one coprocessor job is in flight at any time.                          *)
C1_JobsCompleteBeforeNextStage ==
    /\ Cardinality(InFlight) <= 1
    /\ MainAt("RenderSubmit") =>
          /\ rcp[<<CurSlot, "clear">>] = "none"
          /\ lastRecv = <<CurSlot, "clear">>
    /\ MainAt("RenderSwap") =>
          /\ rcp[<<CurSlot, "draw">>] = "none"
          /\ lastRecv = <<CurSlot, "draw">>

C1_Witness ==
    /\ MainAt("RenderSwap")
    /\ frameNo = 1
    /\ lastRecv = <<1, "draw">>
    /\ Occurs("submit_draw")

SlotRegions(s) ==
    {<<r, s>> : r \in {"clearCmd", "drawCmd", "clearTask", "drawTask",
                        "transform", "quadVtx", "framebuffer"}}

DrawWindow(s) ==
    /\ gDrawBufferIndex = s
    /\ Occurs("submit_draw")
    /\ ~Occurs("recv_retrace")

(* C2: from the submission of a slot's draw job until the refresh wait of *)
(* that frame has returned, no step writes any buffer of that slot.       *)
C2_NoWriteWhileDrawInFlight ==
    \A s \in Slots : DrawWindow(s) => writes \cap SlotRegions(s) = {}

C2_Witness ==
    /\ DrawWindow(1)
    /\ MainAt("RenderWaitRetrace")
    /\ frameEvents[Len(frameEvents)] = "swap"

(* C3: in every frame the draw job is submitted only after the first      *)
(* blocking receive on rdpMsgQueue of that frame has returned.            *)
C3_DrawSubmitAfterClearWait ==
    /\ \A i \in DOMAIN frameEvents :
          frameEvents[i] = "submit_draw" =>
              \E j \in 1 .. (i - 1) : frameEvents[j] = "recv_rdp"
    /\ MainAt("RenderSubmit") => Occurs("recv_rdp")

C3_Witness ==
    /\ frameNo = 1
    /\ frameEvents = <<"submit_clear", "recv_rdp", "submit_draw">>

FrameOrder ==
    <<"submit_clear", "recv_rdp", "submit_draw", "recv_rdp", "swap", "recv_retrace", "rotate">>

IsPrefix(a, b) == Len(a) <= Len(b) /\ SubSeq(b, 1, Len(a)) = a

(* C4: every loop iteration performs clear-submit, clear-wait return,     *)
(* draw-submit, draw-wait return, present, refresh-wait return and rotate *)
(* exactly once each and in this order, and the next iteration starts no  *)
(* event before the rotate.                                               *)
C4_SevenEventsInOrder ==
    /\ IsPrefix(frameEvents, FrameOrder)
    /\ (pc["main"] = "NewFrameUse" /\ frameNo > 0) => frameEvents = FrameOrder
    /\ Occurs("rotate") => pc["main"] = "NewFrameUse"

C4_Witness ==
    /\ pc["main"] = "NewFrameUse"
    /\ frameNo = 2
    /\ frameEvents = FrameOrder

C5_IndexValue ==
    /\ gDrawBufferIndex \in {0, 1}
    /\ frameNo < MaxFrames => gDrawBufferIndex = frameNo % 2

C5_IndexStep ==
    gDrawBufferIndex' # gDrawBufferIndex =>
        /\ MainAt("RenderRotate")
        /\ pc'["main"] = "NewFrameUse"
        /\ gDrawBufferIndex' = 1 - gDrawBufferIndex

(* C5: the frame index is 0 during the first frame, stays in {0,1}, takes *)
(* the values 0,1,0,1,... over completed frames, and changes only at the  *)
(* rotate step, to the other value.                                       *)
C5_FrameIndexAlternates == [](C5_IndexValue) /\ [][C5_IndexStep]_vars

C5_Witness ==
    /\ frameNo = 2
    /\ gDrawBufferIndex = 0
    /\ pc["main"] = "NewFrameUse"

(* C6: the refresh signal consumed by a frame's refresh wait was raised   *)
(* after that frame's swap request, so that at the rotate the VI reads    *)
(* the framebuffer that was just presented.                               *)
C6_RefreshFollowsSwap ==
    MainAt("RenderRotate") =>
        /\ lastRecv = <<gDrawBufferIndex, "retrace">>
        /\ viCurrent = gDrawBufferIndex

(* C7: no append writes at or beyond head + capacity; the tail never      *)
(* moves past the capacity of the buffer that was opened.                 *)
C7_AppendStaysInCapacity ==
    gUbxGfxCmd.pListHead # NULL =>
        /\ CmdCount(gUbxGfxCmd) <= GFX_CLEAR_CMD_LENGTH
        /\ writes \subseteq {RegionOf(gUbxGfxCmd.pListHead)}

(* C8: once a command list is closed and bound to a job, none of its      *)
(* words is written again until that job has completed.                   *)
C8_ClosedListNotWritten ==
    \A j \in closed : <<CmdName(j[2]), j[1]>> \notin writes

C8_Witness ==
    /\ frameNo = 2
    /\ writes = {<<"drawCmd", 0>>}
    /\ closed = {<<0, "clear">>}
    /\ rcp[<<0, "clear">>] = "dp"

WaitQueue(loc) == IF loc = "RenderWaitRetrace" THEN "retrace" ELSE "rdp"

WaitLocs == {"RenderWaitClear", "RenderWaitDraw", "RenderWaitRetrace"}

C9_AtMostOne == \A q \in QueueNames : Len(mq[q].msgs) <= 1

C9_Step ==
    /\ \A q \in QueueNames :
          Len(mq'[q].msgs) < Len(mq[q].msgs) =>
              /\ Len(mq[q].msgs) = 1
              /\ mq'[q].msgs = <<>>
    /\ \A loc \in WaitLocs :
          (pc["main"] = loc /\ mq[WaitQueue(loc)].msgs = <<>>) => pc'["main"] = loc
    /\ \A loc \in WaitLocs :
          (pc["main"] = loc /\ pc'["main"] # loc) =>
              Len(mq'[WaitQueue(loc)].msgs) = Len(mq[WaitQueue(loc)].msgs) - 1

(* C9: every completion channel holds at most one pending signal; a       *)
(* signal arriving while one is pending is not queued, a wait consumes    *)
(* exactly one signal and leaves the channel empty, and a wait on an      *)
(* empty channel does not return until a new signal arrives.              *)
C9_SingleSlotChannels == [](C9_AtMostOne) /\ [][C9_Step]_vars

C9_Witness ==
    /\ MainAt("RenderWaitRetrace")
    /\ "retrace" \in dropped
    /\ Len(mq["retrace"].msgs) = 1
    /\ Len(mq["rcp"].msgs) = 1
    /\ "rcp" \in dropped

C10_Step ==
    unwaited' # unwaited =>
        \/ unwaited = 0 /\ unwaited' = 1 /\ pc["main"] \in {"NewFrameSubmit", "RenderSubmit"}
        \/ unwaited = 1 /\ unwaited' = 0 /\ pc["main"] \in {"RenderWaitClear", "RenderWaitDraw"}

(* C10: over the whole run task starts and returned rdpMsgQueue receives  *)
(* strictly alternate, beginning with a task start.                       *)
C10_SubmitWaitAlternate == [](unwaited \in {0, 1}) /\ [][C10_Step]_vars

C10_Witness ==
    /\ frameNo = 1
    /\ MainAt("RenderWaitClear")
    /\ unwaited = 1
    /\ frameEvents = <<"submit_clear">>

(* Slot of the loop iteration the frame log belongs to: the frame index of *)
(* the iteration, which the rotation at its end has already flipped.       *)
FrameSlot == IF Occurs("rotate") THEN 1 - gDrawBufferIndex ELSE gDrawBufferIndex

(* C11: every completed frame submits exactly two jobs, the clear job and  *)
(* then the draw job of the frame's slot, and after n completed frames     *)
(* exactly 2n jobs have been submitted.                                    *)
C11_TwoJobsPerFrame ==
    /\ IsPrefix(frameJobs, << <<FrameSlot, "clear">>, <<FrameSlot, "draw">> >>)
    /\ Occurs("rotate") => Len(frameJobs) = 2
    /\ frameNo < MaxFrames =>
          jobsSubmitted = 2 * frameNo + (IF Occurs("rotate") THEN 0 ELSE Len(frameJobs))

C11_Witness ==
    /\ frameNo = 2
    /\ jobsSubmitted = 4
    /\ Occurs("rotate")
    /\ frameJobs = << <<1, "clear">>, <<1, "draw">> >>

IdleLowered == pc["idle"] = "spin"

(* C12: once idle() has lowered its own priority to 0, the priority of the *)
(* idle thread is 0 in every later state and no step changes it; from its  *)
(* creation on, no step ever raises it.                                    *)
C12_IdlePriorityStaysLowered ==
    /\ [](IdleLowered => osThread["idle"].pri = 0)
    /\ [][/\ IdleLowered => osThread'["idle"].pri = osThread["idle"].pri
          /\ osThread["idle"].state # "none" =>
                osThread'["idle"].pri <= osThread["idle"].pri]_vars

C12_Witness ==
    /\ IdleLowered
    /\ osThread["idle"].pri = 0
    /\ ran = "idle"
    /\ frameNo = 2

(* idle() has created the main thread and not yet lowered its own priority. *)
MainSpawned == pc["idle"] \in {"StartMain", "SetThreadPri"}

(* C13, as stated: when idle() creates and starts the main thread, the     *)
(* priority of the main thread is strictly higher than that of idle().     *)
C13_MainHigherAtSpawn ==
    MainSpawned => osThread["main"].pri > osThread["idle"].pri

(* C13, amended: when idle() creates and starts the main thread both       *)
(* threads have the same priority, so the start does not preempt and       *)
(* idle() keeps the CPU; the main thread's priority is strictly higher     *)
(* only once idle() has lowered its own priority to 0.                     *)
C13_MainEqualAtSpawnHigherOnceLowered ==
    /\ MainSpawned => osThread["main"].pri = osThread["idle"].pri
    /\ pc["idle"] = "SetThreadPri" =>
          /\ osThread["main"].state = "runnable"
          /\ running = "idle"
          /\ ran # "main"
    /\ IdleLowered => osThread["main"].pri > osThread["idle"].pri

C13_Witness ==
    /\ pc["idle"] = "SetThreadPri"
    /\ osThread["main"] = [state |-> "runnable", pri |-> 10, queue |-> NoQueue]
    /\ osThread["idle"].pri = 10
    /\ running = "idle"

MainBlocked ==
    /\ osThread["main"].state = "waiting"
    /\ osThread["main"].queue \in {"rdp", "retrace"}
    /\ pc["main"] \in WaitLocs

(* C14: after idle() has lowered its priority the idle thread always       *)
(* exists and stays runnable, it holds the CPU only while the main thread  *)
(* is blocked in a receive on rdpMsgQueue or retraceMsgQueue, and every    *)
(* step it takes is taken in such a state.                                 *)
C14_IdleRunsOnlyWhileMainBlocked ==
    /\ [](IdleLowered =>
            /\ osThread["idle"].state = "runnable"
            /\ running \in Threads
            /\ osThread["main"].state = "runnable" => running = "main"
            /\ running = "idle" => MainBlocked)
    /\ [][(IdleLowered /\ ran' = "idle") => (MainBlocked /\ MainBlocked')]_vars

C14_Witness ==
    /\ IdleLowered
    /\ ran = "idle"
    /\ running = "idle"
    /\ osThread["main"].queue = "rdp"
    /\ pc["main"] = "RenderWaitDraw"
    /\ MainBlocked

Logged(step) == \E i \in DOMAIN bootLog : bootLog[i] = step

Times(step) == Cardinality({i \in DOMAIN bootLog : bootLog[i] = step})

Index(step) == CHOOSE i \in DOMAIN bootLog : bootLog[i] = step

SetDefaultsSteps == {"SystemSetDefaults", "VideoSetDefaults", "DeviceSetDefaults"}

InitializeSteps == {"SystemInitialize", "VideoInitialize", "DeviceInitialize"}

(* C15: when OnGameBoot runs, each of the three SetDefaults calls has run  *)
(* exactly once, none runs afterwards and no later step changes the        *)
(* configuration, so the display mode index OnGameBoot wrote is the value  *)
(* _UbxVideoInitialize passes to osViSetMode.                              *)
C15_GameBootValuesReachInitialize ==
    /\ [](Logged("OnGameBoot") =>
            /\ \A d \in SetDefaultsSteps : Times(d) = 1 /\ Index(d) < Index("OnGameBoot")
            /\ gUbxVideo.viModeIndex = DISPLAY_VI_MODE_INDEX)
    /\ [](Logged("VideoInitialize") =>
            /\ Logged("OnGameBoot")
            /\ viMode = DISPLAY_VI_MODE_INDEX)
    /\ [][Logged("OnGameBoot") => UNCHANGED cfgVars]_vars

C15_Witness ==
    /\ pc["idle"] = "DeviceInitialize"
    /\ ran = "idle"
    /\ viMode = DISPLAY_VI_MODE_INDEX
    /\ Len(bootLog) = 9

(* The steps of boot() followed by those of idle(), up to the start of the *)
(* main thread.                                                            *)
BringUpOrder ==
    << "osInitialize",
       "SystemSetDefaults", "VideoSetDefaults", "DeviceSetDefaults",
       "OnGameBoot",
       "CreateIdle", "StartIdle",
       "SystemInitialize", "VideoInitialize", "DeviceInitialize",
       "OnGameInitialize",
       "CreateMain", "StartMain" >>

MainHasRun ==
    \/ pc["main"] # "NewFrameUse"
    \/ frameNo > 0
    \/ ran = "main"
    \/ running = "main"

(* C16: the bring-up steps run once each in the order hardware bring-up,   *)
(* three SetDefaults, OnGameBoot, spawn of idle(), three Initialize,       *)
(* OnGameInitialize, spawn of the main thread (followed only by the        *)
(* priority hand-off); the main thread takes its first step after all of   *)
(* them, and boot() never takes a step again once idle() has started.      *)
C16_BringUpOrderOnce ==
    /\ [](\/ IsPrefix(bootLog, BringUpOrder)
          \/ bootLog = Append(BringUpOrder, "SetThreadPri"))
    /\ [](MainHasRun => IsPrefix(BringUpOrder, bootLog))
    /\ [](Logged("StartIdle") => running # "boot" /\ pc["boot"] = "unreachable")
    /\ [][Logged("StartIdle") => ran' # "boot"]_vars

C16_Witness ==
    /\ bootLog = Append(BringUpOrder, "SetThreadPri")
    /\ pc["boot"] = "unreachable"
    /\ pc["main"] = "NewFrameAppend"
    /\ frameNo = 0
    /\ ran = "main"

AllInitialized == \A s \in InitializeSteps : Logged(s)

(* A hardware signal has been delivered to queue q and not yet received. *)
Delivered(q) == mq[q].msgs # <<>> \/ q \in dropped

(* The Initialize call that creates queue q. *)
CreatedBy(q) ==
    IF q = "retrace" THEN "VideoInitialize"
    ELSE IF q = "pi" THEN "DeviceInitialize"
    ELSE "SystemInitialize"

PipelineUsed ==
    \/ MainHasRun
    \/ osThread["main"].state = "waiting"
    \/ InFlight # {}
    \/ jobsSubmitted > 0
    \/ lastSwap # <<>>
    \/ viNext # NoBuffer

(* C17, as stated: no signal is delivered to a queue, no receive is        *)
(* performed, no task is started and no swap is requested before the       *)
(* queue is created and all three Initialize calls have returned.          *)
C17_NothingBeforeAllInitialized ==
    /\ \A q \in QueueNames : Delivered(q) => mq[q].created /\ AllInitialized
    /\ PipelineUsed => AllInitialized

(* C17, amended: no signal is delivered to a queue before the Initialize   *)
(* call that creates and binds it has returned, and no receive, task start *)
(* or swap request happens before all three Initialize calls have          *)
(* returned; the only signal that can be delivered before that is a        *)
(* retrace message on retraceMsgQueue, after _UbxVideoInitialize.          *)
C17_NothingBeforeOwnInitialize ==
    /\ \A q \in QueueNames : Delivered(q) => mq[q].created /\ Logged(CreatedBy(q))
    /\ \A q \in QueueNames : (Delivered(q) /\ ~AllInitialized) => q = "retrace"
    /\ PipelineUsed => AllInitialized

C17_Witness ==
    /\ pc["idle"] = "DeviceInitialize"
    /\ ~AllInitialized
    /\ Len(mq["retrace"].msgs) = 1
    /\ "retrace" \in dropped
    /\ ran = "hw"

CmdRegions == {"clearCmd", "drawCmd"}

(* Every command-list write of the last step was made by the main thread. *)
CmdWritesByMain == \A w \in writes : w[1] \in CmdRegions => ran = "main"

(* C18, as stated: every osViSwapBuffer call and every command-list write  *)
(* is executed by the main thread, none by boot() or idle().               *)
C18_OnlyMainSwapsAndBuilds ==
    /\ CmdWritesByMain
    /\ lastSwap # <<>> => lastSwap[1] = "main"

(* C18, amended: every command-list write and every change of the list     *)
(* cursor is executed by the main thread, and so is every osViSwapBuffer   *)
(* call except one: OnGameInitialize, run by idle() before the main thread *)
(* exists, requests framebuffer 1 once. boot() does neither.               *)
C18_OnlyMainBuildsIdleSwapsOnce ==
    /\ [](/\ CmdWritesByMain
          /\ lastSwap # <<>> => (lastSwap[1] = "main" \/ lastSwap = <<"idle", 1>>)
          /\ lastSwap = <<"idle", 1>> => (frameNo = 0 /\ ~Occurs("swap"))
          /\ Logged("OnGameInitialize") => lastSwap # <<>>)
    /\ [][/\ (gfxMem' # gfxMem \/ gUbxGfxCmd' # gUbxGfxCmd) => ran' = "main"
          /\ (lastSwap' # lastSwap /\ ran' # "main") =>
                /\ ran' = "idle"
                /\ pc["idle"] = "OnGameInitialize"
                /\ osThread["main"].state = "none"
                /\ lastSwap = <<>>]_vars

C18_Witness ==
    /\ lastSwap = <<"idle", 1>>
    /\ viNext = 1
    /\ ran = "idle"
    /\ osThread["main"].state = "none"

NewFrameLocs ==
    {"NewFrameUse", "NewFrameAppend", "NewFrameBind", "NewFrameWriteback", "NewFrameSubmit"}

UpdateLocs ==
    {"UpdateVertices", "UpdateVerticesWriteback", "UpdateTransform", "UpdateTransformWriteback"}

(* The hook a location of the loop body belongs to. *)
HookOf(loc) ==
    IF loc \in NewFrameLocs THEN "_OnGameNewFrame"
    ELSE IF loc \in UpdateLocs THEN "_OnGameUpdate"
    ELSE "_OnGameRender"

HookCalls ==
    { <<"NewFrameSubmit", "UpdateVertices">>,
      <<"UpdateTransformWriteback", "RenderUse">>,
      <<"RenderRotate", "NewFrameUse">> }

(* C19: the main thread passes from hook to hook only from the last        *)
(* statement of one to the first statement of the next, in the cyclic      *)
(* order new-frame, update, render, so each hook runs once per iteration;  *)
(* while the update hook runs, the clear list of the current slot has been *)
(* bound and its task started, and nothing else of the frame has happened. *)
C19_HooksOnceInOrder ==
    /\ [][HookOf(pc'["main"]) # HookOf(pc["main"]) =>
             <<pc["main"], pc'["main"]>> \in HookCalls]_vars
    /\ [][(pc["main"] = "RenderRotate" /\ pc'["main"] # "RenderRotate") =>
             pc'["main"] = "NewFrameUse"]_vars
    /\ [](pc["main"] \in UpdateLocs =>
            /\ frameEvents = <<"submit_clear">>
            /\ frameJobs = << <<gDrawBufferIndex, "clear">> >>
            /\ task[<<gDrawBufferIndex, "clear">>].data_ptr = CmdAddr(gDrawBufferIndex, "clear")
            /\ task[<<gDrawBufferIndex, "clear">>].data_size = Len(ClearOps) * SizeofGfx)
    /\ [](pc["main"] \notin (NewFrameLocs \cup UpdateLocs) => Occurs("submit_clear"))

C19_Witness ==
    /\ MainAt("UpdateVertices")
    /\ ran = "main"
    /\ frameNo = 1
    /\ frameEvents = <<"submit_clear">>
    /\ rcp[<<1, "clear">>] = "sp"

(* The main thread is at the receive at loc and the queue holds no message. *)
StalledAt(loc) == pc["main"] = loc /\ mq[WaitQueue(loc)].msgs = <<>>

(* C20: while the main thread is at one of its receives and the queue it   *)
(* waits on holds no message, no step moves it past the receive, starts a  *)
(* task, requests a swap or changes the frame index; a blocked main thread *)
(* becomes runnable again only in a step that puts a message on its queue. *)
C20_StallUntilSignal ==
    /\ [][\A loc \in WaitLocs : StalledAt(loc) =>
             /\ pc'["main"] = loc
             /\ gDrawBufferIndex' = gDrawBufferIndex
             /\ frameNo' = frameNo
             /\ jobsSubmitted' = jobsSubmitted
             /\ \A j \in Jobs : rcp[j] = "none" => rcp'[j] = "none"
             /\ lastSwap' = lastSwap
             /\ viNext' = viNext]_vars
    /\ [][(osThread["main"].state = "waiting" /\ osThread'["main"].state # "waiting") =>
             /\ ran' = "hw"
             /\ mq[osThread["main"].queue].msgs = <<>>
             /\ mq'[osThread["main"].queue].msgs # <<>>]_vars
    /\ [](osThread["main"].state = "waiting" =>
             /\ pc["main"] \in WaitLocs
             /\ osThread["main"].queue = WaitQueue(pc["main"])
             /\ StalledAt(pc["main"]))

C20_Witness ==
    /\ StalledAt("RenderWaitRetrace")
    /\ osThread["main"].state = "waiting"
    /\ osThread["main"].queue = "retrace"
    /\ ran = "idle"
    /\ frameNo = 1
    /\ lastSwap = <<"main", 1>>

(* C21: in fair runs (the CPU runs the context that holds it, every task   *)
(* started is finished by the RSP and the RDP, retraces keep coming) every *)
(* loop iteration that has started reaches its rotate statement, the frame *)
(* index keeps changing for ever, and a main thread blocked on rdpMsgQueue *)
(* always has a task in flight that will wake it.                          *)
C21_EveryFrameRotates ==
    /\ (pc["main"] = "NewFrameAppend") ~> (pc["main"] = "RenderRotate")
    /\ (pc["main"] = "RenderRotate") ~> (pc["main"] = "NewFrameAppend")
    /\ []<>(gDrawBufferIndex = 0 /\ MainHasRun)
    /\ []<>(gDrawBufferIndex = 1)
    /\ []((osThread["main"].state = "waiting" /\ osThread["main"].queue = "rdp") =>
             InFlight # {})

C21_Witness ==
    /\ MainAt("RenderRotate")
    /\ frameNo = 1
    /\ gDrawBufferIndex = 1
    /\ lastRecv = <<1, "retrace">>
    /\ Len(frameEvents) = 6

DefaultsDone == \A d \in SetDefaultsSteps : Logged(d)

(* C22: after the SetDefaults phase every subsystem global is zero except  *)
(* for its default fields, and the queue length of every subsystem (DMA,   *)
(* RCP, RDP, retrace, PI) holds the capacity 1.                            *)
C22_DefaultsFillEveryQueueLength ==
    DefaultsDone =>
        /\ gUbxSystem.dmaMsgQueueLength = 1
        /\ gUbxSystem.rcpMsgQueueLength = 1
        /\ gUbxSystem.rdpMsgQueueLength = 1
        /\ gUbxVideo.retraceMsgQueueLength = 1
        /\ ~Logged("OnGameBoot") => gUbxVideo.viModeIndex = ZeroModeIndex
        /\ gUbxDevice.handles
        /\ gUbxDevice.msgLength = 1

(* The queues the system and video subsystems own. *)
SubsystemQueues == {"dma", "rcp", "rdp", "retrace"}

BoundEvents(q) == {ev \in Events : eventMesg[ev] = q}

(* C23, as stated: when the three Initialize calls have returned, each of  *)
(* the DMA, RCP, RDP and retrace queues is created and bound to a hardware *)
(* event.                                                                  *)
C23_EveryQueueCreatedAndBound ==
    AllInitialized =>
        \A q \in SubsystemQueues : mq[q].created /\ BoundEvents(q) # {}

(* C23, amended: when the three Initialize calls have returned, the DMA,   *)
(* RCP, RDP and retrace queues are all created, each with capacity 1; the  *)
(* RCP queue is bound to the SP event, the RDP queue to the DP event and   *)
(* the retrace queue to the VI retrace, while the DMA queue is bound to no *)
(* event.                                                                  *)
C23_QueuesCreatedThreeBound ==
    AllInitialized =>
        /\ \A q \in SubsystemQueues : mq[q].created /\ mq[q].msgCount = 1
        /\ BoundEvents("rcp") = {"OS_EVENT_SP"}
        /\ BoundEvents("rdp") = {"OS_EVENT_DP"}
        /\ BoundEvents("retrace") = {"VI_RETRACE"}
        /\ BoundEvents("dma") = {}

C23_Witness ==
    /\ AllInitialized
    /\ pc["idle"] = "OnGameInitialize"
    /\ mq["dma"].created
    /\ BoundEvents("dma") = {}
    /\ eventMesg["OS_EVENT_DP"] = "rdp"

(* Task j has been started and its DP message has not been received yet:   *)
(* it is still in the coprocessor or its message waits on rdpMsgQueue.      *)
SignalPending(j) ==
    \/ rcp[j] # "none"
    \/ \E i \in DOMAIN mq["rdp"].msgs : mq["rdp"].msgs[i] = j

(* C24: no field of clearTask or drawTask of a slot is written while that  *)
(* task is in flight, and whenever a task structure changes (its data_ptr  *)
(* and data_size are rebound) the DP message of its previous start has     *)
(* been received.                                                          *)
C24_TaskImmutableWhileInFlight ==
    /\ [](\A j \in Jobs :
            rcp[j] # "none" => <<TaskName(j[2]), j[1]>> \notin writes)
    /\ [][\A j \in Jobs :
            (task'[j] # task[j] \/ <<TaskName(j[2]), j[1]>> \in writes') =>
                (~SignalPending(j) /\ rcp'[j] = "none")]_vars
    /\ [][\A j \in Jobs :
            (rcp[j] = "none" /\ rcp'[j] # "none") =>
                (task'[j] = task[j] /\ j \in closed)]_vars

C24_Witness ==
    /\ MainAt("NewFrameWriteback")
    /\ frameNo = 2
    /\ writes = {<<"clearTask", 0>>}
    /\ task[<<0, "clear">>].data_size = Len(ClearOps) * SizeofGfx
    /\ ~SignalPending(<<0, "clear">>)

(* Gfx-unit addresses of the command data of task t. *)
DataCells(t) == t.data_ptr .. (t.data_ptr + (t.data_size \div SizeofGfx) - 1)

(* Task j is bound to the list the cursor has just closed. *)
BoundToClosedList(j) ==
    LET t == task[j] IN
    /\ j[1] = gDrawBufferIndex
    /\ gUbxGfxCmd.pListHead = CmdAddr(j[1], j[2])
    /\ t.data_ptr = gUbxGfxCmd.pListHead
    /\ t.data_size = (gUbxGfxCmd.pListTail - gUbxGfxCmd.pListHead) * SizeofGfx
    /\ t.data_size > 0
    /\ DataCells(t) \subseteq DOMAIN gfxMem
    /\ \A a \in DataCells(t) :
          gfxMem[a] = "gSPEndDisplayList" <=> a = gUbxGfxCmd.pListTail - 1

(* C25: whenever a task is started, its data_ptr is the head of the list   *)
(* just built in the current slot, its data_size is tail minus head in     *)
(* bytes, and the last word of that range, and no earlier one, is          *)
(* gSPEndDisplayList.                                                      *)
C25_TaskDataIsClosedList ==
    /\ [][\A j \in Jobs :
            (rcp[j] = "none" /\ rcp'[j] # "none") => BoundToClosedList(j)]_vars
    /\ [](\A k \in Kinds :
            MainAt(IF k = "clear" THEN "NewFrameSubmit" ELSE "RenderSubmit") =>
                BoundToClosedList(<<gDrawBufferIndex, k>>))

C25_Witness ==
    /\ rcp[<<1, "draw">>] = "sp"
    /\ task[<<1, "draw">>].data_ptr = CmdAddr(1, "draw")
    /\ task[<<1, "draw">>].data_size = Len(DrawOps) * SizeofGfx
    /\ gfxMem[CmdAddr(1, "draw") + Len(DrawOps) - 1] = "gSPEndDisplayList"
    /\ MainAt("RenderWaitDraw")

(* The CPU-written memory task j makes the coprocessor read: its command   *)
(* data and, for a draw task, the vertices and the transform of its slot.  *)
JobReads(j) ==
    {<<"gfx", a>> : a \in DataCells(task[j])}
        \cup (IF j[2] = "draw"
              THEN {<<"quadVtx", j[1]>>, <<"transform", j[1]>>}
              ELSE {})

(* C26: when a task is started, nothing it reads is still held only in the *)
(* data cache (every CPU write to its command list, and for the draw task  *)
(* to the slot's vertices and transform, has been followed by a write-back *)
(* and by no further write), and this stays so while the RSP reads it.     *)
C26_ReadsWrittenBackAtSubmit ==
    /\ [][\A j \in Jobs :
            (rcp[j] = "none" /\ rcp'[j] # "none") =>
                (JobReads(j) \cap dirty = {} /\ JobReads(j) \cap dirty' = {})]_vars
    /\ [](\A j \in Jobs : rcp[j] = "sp" => JobReads(j) \cap dirty = {})
    /\ [](\A k \in Kinds :
            MainAt(IF k = "clear" THEN "NewFrameSubmit" ELSE "RenderSubmit") =>
                /\ JobReads(<<gDrawBufferIndex, k>>) \cap dirty = {}
                /\ writes = {})

C26_Witness ==
    /\ rcp[<<0, "draw">>] = "sp"
    /\ frameNo = 0
    /\ <<"quadVtx", 1>> \in dirty
    /\ JobReads(<<0, "draw">>) \cap dirty = {}
    /\ Cardinality(JobReads(<<0, "draw">>)) = Len(DrawOps) + 2

(* Capacity of the list the cursor has open. *)
OpenCapacity ==
    CmdCapacity(IF RegionOf(gUbxGfxCmd.pListHead)[1] = "clearCmd" THEN "clear" ELSE "draw")

ListStarts == {CmdAddr(s, k) : s \in Slots, k \in Kinds}

(* C27: in the template game the cursor always has head <= tail and, once  *)
(* a list is open, tail - head <= the capacity of that list (16 or 2048);  *)
(* opening a list sets head and tail to its start, and every other change  *)
(* of the cursor advances the tail by one and leaves the head alone, so    *)
(* the count of a list restarts from zero in every frame.                  *)
C27_CursorWithinCapacity ==
    /\ [](/\ gUbxGfxCmd.pListHead <= gUbxGfxCmd.pListTail
          /\ gUbxGfxCmd.pListHead # NULL =>
                /\ gUbxGfxCmd.pListHead \in ListStarts
                /\ CmdCount(gUbxGfxCmd) <= OpenCapacity)
    /\ [][gUbxGfxCmd' # gUbxGfxCmd =>
            \/ /\ gUbxGfxCmd'.pListHead \in ListStarts
               /\ gUbxGfxCmd'.pListTail = gUbxGfxCmd'.pListHead
               /\ pc["main"] \in {"NewFrameUse", "RenderUse"}
            \/ /\ gUbxGfxCmd'.pListHead = gUbxGfxCmd.pListHead
               /\ gUbxGfxCmd'.pListTail = gUbxGfxCmd.pListTail + 1]_vars

C27_Witness ==
    /\ frameNo = 2
    /\ MainAt("NewFrameBind")
    /\ gUbxGfxCmd.pListHead = CmdAddr(0, "clear")
    /\ CmdCount(gUbxGfxCmd) = Len(ClearOps)
    /\ OpenCapacity = GFX_CLEAR_CMD_LENGTH

(* C28: with one DP message per started task, rdpMsgQueue is empty and has *)
(* discarded nothing whenever the clear task is started: both messages of  *)
(* the previous frame have been received and no task is in flight.         *)
C28_NoSignalCarriedOver ==
    /\ [](MainAt("NewFrameSubmit") =>
            /\ mq["rdp"].msgs = <<>>
            /\ "rdp" \notin dropped
            /\ InFlight = {}
            /\ unwaited = 0)
    /\ [][(pc["main"] = "NewFrameSubmit" /\ pc'["main"] # "NewFrameSubmit") =>
            /\ mq'["rdp"].msgs = <<>>
            /\ unwaited' = 1
            /\ InFlight' = {<<gDrawBufferIndex, "clear">>}]_vars

C28_Witness ==
    /\ MainAt("NewFrameSubmit")
    /\ frameNo = 1
    /\ mq["rdp"].msgs = <<>>
    /\ lastRecv[2] = "retrace"
    /\ jobsSubmitted = 2

SubmitLocs == {"NewFrameSubmit", "RenderSubmit"}

(* C29: whenever a task is started, the framebuffer named by the most      *)
(* recent osViSwapBuffer is the one of the other slot, not the one the     *)
(* task renders into: during the first frame it is framebuffer 1, named by *)
(* OnGameInitialize, while the frame renders into framebuffer 0, and in    *)
(* every later frame it is the framebuffer the previous frame presented.   *)
C29_SubmitTargetsOtherBuffer ==
    /\ [][\A j \in Jobs :
            (rcp[j] = "none" /\ rcp'[j] # "none") =>
                /\ lastSwap # <<>>
                /\ lastSwap[2] = 1 - j[1]
                /\ viNext = 1 - j[1]
                /\ j[1] = gDrawBufferIndex]_vars
    /\ [](pc["main"] \in SubmitLocs =>
            (lastSwap # <<>> /\ lastSwap[2] # gDrawBufferIndex /\ viNext = lastSwap[2]))
    /\ []((MainHasRun /\ frameNo = 0 /\ ~Occurs("swap")) =>
            (lastSwap = <<"idle", 1>> /\ gDrawBufferIndex = 0))
    /\ [][(pc["main"] = "RenderRotate" /\ pc'["main"] # "RenderRotate") =>
            (lastSwap = <<"main", gDrawBufferIndex>> /\ gDrawBufferIndex' # lastSwap[2])]_vars

C29_Witness ==
    /\ rcp[<<1, "clear">>] = "sp"
    /\ lastSwap = <<"main", 0>>
    /\ viNext = 0
    /\ gDrawBufferIndex = 1
    /\ pc["main"] = "UpdateVertices"

PerSlotUses == {"frameBuffer", "quadVtx", "transform", "present"}

(* C30: everything one loop iteration does with per-slot memory uses the   *)
(* slot of one and the same frame index: the framebuffer the clear list    *)
(* names, the vertices and the transform the update hook writes and the    *)
(* draw list names, both tasks started, and the framebuffer presented; the *)
(* index changes only in the last statement of the render hook.            *)
C30_OneSlotPerFrame ==
    /\ [](\A u \in frameUses : u[1] \in PerSlotUses /\ u[2] = FrameSlot)
    /\ [](\A i \in DOMAIN frameJobs : frameJobs[i][1] = FrameSlot)
    /\ [](Occurs("swap") => lastSwap = <<"main", FrameSlot>>)
    /\ [](Occurs("rotate") => frameUses = {<<w, FrameSlot>> : w \in PerSlotUses})
    /\ [][gDrawBufferIndex' # gDrawBufferIndex =>
            /\ pc["main"] = "RenderRotate"
            /\ pc'["main"] = "NewFrameUse"
            /\ ran' = "main"]_vars

C30_Witness ==
    /\ Occurs("rotate")
    /\ frameNo = 2
    /\ gDrawBufferIndex = 0
    /\ frameUses = {<<w, 1>> : w \in PerSlotUses}
    /\ lastSwap = <<"main", 1>>

(* Some task has passed the RSP (its SP event has been raised). *)
SomeSpDone ==
    \/ \E j \in Jobs : rcp[j] = "dp"
    \/ mq["rdp"].msgs # <<>>
    \/ Occurs("recv_rdp")
    \/ frameNo > 0

(* C31: no context ever blocks on rcpMsgQueue or dmaMsgQueue and nothing   *)
(* is ever received from them; the SP message of the first task stays on   *)
(* rcpMsgQueue for ever, every later SP message is discarded, dmaMsgQueue  *)
(* stays empty, and raising the SP event neither blocks nor reschedules    *)
(* the main thread.                                                        *)
C31_RcpQueueNeverDrained ==
    /\ [](\A t \in Threads :
            osThread[t].state = "waiting" => osThread[t].queue \notin {"rcp", "dma"})
    /\ [](mq["dma"].msgs = <<>> /\ "dma" \notin dropped)
    /\ [](IF SomeSpDone
          THEN mq["rcp"].msgs = << <<0, "clear">> >>
          ELSE mq["rcp"].msgs = <<>> /\ "rcp" \notin dropped)
    /\ []((jobsSubmitted >= 2 /\ InFlight = {}) => "rcp" \in dropped)
    /\ [][/\ mq["rcp"].msgs # <<>> => mq'["rcp"] = mq["rcp"]
          /\ "rcp" \in dropped => "rcp" \in dropped'
          /\ (\E j \in Jobs : rcp[j] = "sp" /\ rcp'[j] = "dp") =>
                (osThread' = osThread /\ running' = running /\ pc' = pc)]_vars

C31_Witness ==
    /\ mq["rcp"].msgs = << <<0, "clear">> >>
    /\ "rcp" \in dropped
    /\ frameNo = 2
    /\ rcp[<<0, "clear">>] = "dp"

(* C32: the main thread takes no step, and never holds the CPU, before     *)
(* idle() has lowered its own priority: osStartThread(&mainThread) leaves  *)
(* idle() running, and the step that lowers the priority is the one that   *)
(* hands the CPU to the main thread.                                       *)
C32_MainWaitsForPriorityDrop ==
    /\ [](~IdleLowered =>
            /\ running # "main"
            /\ ran # "main"
            /\ pc["main"] = "NewFrameUse"
            /\ jobsSubmitted = 0
            /\ gUbxGfxCmd.pListHead = NULL)
    /\ [][ran' = "main" => (IdleLowered /\ running = "main")]_vars
    /\ [][(pc["idle"] = "StartMain" /\ pc'["idle"] # "StartMain") =>
            /\ osThread'["main"].state = "runnable"
            /\ running' = "idle"]_vars
    /\ [][(pc["idle"] = "SetThreadPri" /\ pc'["idle"] = "spin") =>
            (running = "idle" /\ running' = "main")]_vars

C32_Witness ==
    /\ pc["idle"] = "spin"
    /\ ran = "idle"
    /\ running = "main"
    /\ pc["main"] = "NewFrameUse"
    /\ bootLog = Append(BringUpOrder, "SetThreadPri")


IsPowerOfTwo(a) == \E k \in 0..20 : a = 2^k

Larger(x, y) == IF x < y THEN y ELSE x

ReadReturned == output.fn = "Read"

(* C38: a Read of a non-empty file of size n with minimum size m and   *)
(* alignment a succeeds; for a power-of-two a the buffer's length is   *)
(* the smallest multiple of a that is at least max(n, m), for a = 0 it *)
(* is max(n, m); bytes [0, n) are the file's and every byte from n to  *)
(* the length is the fill byte.                                        *)
C38_ReadPadsToAlignedMax ==
    (ReadReturned /\ readCall.file.exists /\ Len(readCall.file.bytes) > 0
        /\ (readCall.padAlign = 0 \/ IsPowerOfTwo(readCall.padAlign)))
    => LET n == Len(readCall.file.bytes)
           a == readCall.padAlign
           top == Larger(n, readCall.minSize)
       IN  /\ output.ok
           /\ a = 0 => output.length = top
           /\ a > 0 => /\ output.length % a = 0
                       /\ output.length >= top
                       /\ output.length - a < top
           /\ DOMAIN output.data = 1..output.length
           /\ \A i \in 1..n : output.data[i] = readCall.file.bytes[i]
           /\ \A i \in (n + 1)..output.length : output.data[i] = readCall.fillByte

C38_Witness ==
    /\ ReadReturned
    /\ output.ok
    /\ Len(readCall.file.bytes) = 3
    /\ readCall.minSize = 5
    /\ readCall.padAlign = 4
    /\ readCall.fillByte = 255
    /\ output.length = 8
    /\ output.data[3] = 65
    /\ output.data[4] = 255


RomCopied == maskrom.fn = "maskrom64" /\ maskrom.copyEnd > 0

(* C33: whenever ProcessRom has copied the bootcode into the ROM       *)
(* buffer, the copy ended within the buffer: 0x40 plus the bootcode    *)
(* length is at most the ROM buffer length.                            *)
C33_BootCodeCopyFits ==
    RomCopied => bootCodeOffset + maskrom.bootCodeFile <= maskrom.romFile


(* main() has got past the checks that come before the bootcode path. *)
ReachedBootCodeCheck ==
    /\ maskrom.fn = "maskrom64"
    /\ maskrom.pc # "main"
    /\ ~args.help
    /\ args.input_file # Absent
    /\ ValueOf(args.input_file) # ""
    /\ args.output # Given("")

(* C36: when --bootcode is given with an empty string, main reports    *)
(* "Bootcode file path is empty" and returns failure, and ProcessRom   *)
(* is not called.                                                      *)
C36_EmptyBootCodePathRejected ==
    (ReachedBootCodeCheck /\ args.bootcode = Given(""))
    => /\ maskrom.pc = "exit"
       /\ maskrom.exit = Given(APP_EXIT_FAILURE)
       /\ maskrom.log = <<"Bootcode file path is empty">>
       /\ maskrom.ret = Absent


ReturnedFalseBeforeWrite ==
    /\ maskrom.fn = "maskrom64"
    /\ maskrom.ret = Given(FALSE)
    /\ maskrom.log[Len(maskrom.log)] # "Failed to write output file"

Letters == (65..90) \cup (97..122)

Digits == 48..57

ValidName(name) ==
    /\ Len(name) > 0
    /\ name[1] \in Letters \cup {95, 36}
    /\ \A i \in 2..Len(name) : name[i] \in Letters \cup Digits \cup {95, 36}

KnownTypes == {"animation", "model", "music", "sfx", "texture"}

NodeAccepted(node) ==
    /\ ValidName(node.key)
    /\ node.type # Absent
    /\ ValueOf(node.type).isString
    /\ ValueOf(node.type).string \in KnownTypes

(* C34: ProcessManifest returns true only if every object node of the  *)
(* manifest has a valid asset name, a "type" member that is a string,  *)
(* and a type that is one of the known asset types.                    *)
C34_TrueOnlyIfEveryNodeAccepted ==
    (result.fn = "ProcessManifest" /\ result.ret = Given(TRUE))
    => \A i \in 1..Len(call.manifest.nodes) :
          call.manifest.nodes[i].isObject => NodeAccepted(call.manifest.nodes[i])


(* C35: JoinPath(left, right) returns left, the separator and right    *)
(* when both are non-empty, the non-empty argument when exactly one is *)
(* empty, and the empty string only when both are empty.               *)
C35_JoinPathKeepsNonEmptyArgument ==
    result.fn = "JoinPath"
    => LET left == call.left
           right == call.right
           joined == ValueOf(result.ret)
       IN  /\ (left # <<>> /\ right # <<>>) => joined = left \o <<PATH_SEP_CHR>> \o right
           /\ (left # <<>> /\ right = <<>>) => joined = left
           /\ (left = <<>> /\ right # <<>>) => joined = right
           /\ joined = <<>> => (left = <<>> /\ right = <<>>)


(* C39: ValidateAssetName accepts a name exactly when the name is      *)
(* non-empty, starts with an ASCII letter, '_' or '$' and goes on with *)
(* ASCII letters, digits, '_' and '$' only; no name that starts with a *)
(* digit is accepted.                                                  *)
C39_AcceptsExactlyIdentifiers ==
    result.fn = "ValidateAssetName"
    => /\ result.ret = Given(TRUE) <=> ValidName(call.name)
       /\ (call.name # <<>> /\ call.name[1] \in Digits) => result.ret = Given(FALSE)

C39_Witness ==
    /\ result.fn = "ValidateAssetName"
    /\ call.name = <<95, 57, 36>>
    /\ result.ret = Given(TRUE)

====
